---- MODULE Spec2Model ----
(***************************************************************************)
(* Medal-event extraction and normalisation pipeline of the medal tracker. *)
(* Text is modelled as a sequence of one-character strings, so that the    *)
(* regular expressions, str.lower, str.strip and str.endswith of the       *)
(* source are computed character by character.                             *)
(***************************************************************************)
EXTENDS Integers, Sequences, FiniteSets, TLC

(***************************************************************************)
(* Bounds of the model.                                                    *)
(***************************************************************************)
MaxParts == 3

(***************************************************************************)
(* Characters.                                                             *)
(***************************************************************************)
UpperChars ==
  <<"A","B","C","D","E","F","G","H","I","J","K","L","M",
    "N","O","P","Q","R","S","T","U","V","W","X","Y","Z">>

LowerChars ==
  <<"a","b","c","d","e","f","g","h","i","j","k","l","m",
    "n","o","p","q","r","s","t","u","v","w","x","y","z">>

DigitChars == <<"0","1","2","3","4","5","6","7","8","9">>

Range(s) == {s[i] : i \in 1..Len(s)}

\* str.lower on one character
LowerChar(c) ==
  IF \E i \in 1..26 : UpperChars[i] = c
  THEN LowerChars[CHOOSE i \in 1..26 : UpperChars[i] = c]
  ELSE c

\* str.lower
StrLower(s) == [i \in 1..Len(s) |-> LowerChar(s[i])]

\* the class \s of the regular expressions and of str.strip()
IsSpace(c) == c \in {" ", "\t"}

\* the class \w that decides the \b word boundaries
IsWordChar(c) ==
  c \in Range(UpperChars) \cup Range(LowerChars) \cup Range(DigitChars) \cup {"_"}

\* str.strip(chars): removes leading and trailing characters of a set
RECURSIVE LStripChars(_, _)
LStripChars(s, chars) ==
  IF s # <<>> /\ Head(s) \in chars THEN LStripChars(Tail(s), chars) ELSE s

RECURSIVE RStripChars(_, _)
RStripChars(s, chars) ==
  IF s # <<>> /\ s[Len(s)] \in chars
  THEN RStripChars(SubSeq(s, 1, Len(s) - 1), chars)
  ELSE s

StripChars(s, chars) == RStripChars(LStripChars(s, chars), chars)

\* str.strip()
StripSpace(s) == StripChars(s, {" ", "\t"})

\* every pair of whitespace characters becomes one space, in one pass
RECURSIVE CollapseSpace_pairs(_)
CollapseSpace_pairs(s) ==
  IF s = <<>> THEN <<>>
  ELSE IF Len(s) >= 2 /\ IsSpace(s[1]) /\ IsSpace(s[2])
       THEN <<" ">> \o CollapseSpace_pairs(SubSeq(s, 3, Len(s)))
       ELSE <<Head(s)>> \o CollapseSpace_pairs(Tail(s))

\* re.sub(r"\s+", " ", s): every run of whitespace becomes one space
RECURSIVE CollapseSpace(_)
CollapseSpace(s) ==
  IF s = <<>> THEN <<>>
  ELSE IF IsSpace(Head(s))
       THEN <<" ">> \o CollapseSpace(LStripChars(s, {" ", "\t"}))
       ELSE <<Head(s)>> \o CollapseSpace(Tail(s))

\* position of the first "]" at or after index i, 0 when there is none
RECURSIVE FirstClose(_, _)
FirstClose(s, i) ==
  IF i > Len(s) THEN 0
  ELSE IF s[i] = "]" THEN i
  ELSE FirstClose(s, i + 1)

\* the cell without the re.sub call that removes the markers
StripMarkers_kept(s) == s

\* re.sub(r"\[[^\]]+\]", "", s): leftmost non-overlapping bracketed markers
\* with at least one character between the brackets are removed
RECURSIVE StripMarkers(_)
StripMarkers(s) ==
  IF s = <<>> THEN <<>>
  ELSE IF Head(s) = "[" /\ FirstClose(s, 2) > 2
       THEN StripMarkers(SubSeq(s, FirstClose(s, 2) + 1, Len(s)))
       ELSE <<Head(s)>> \o StripMarkers(Tail(s))

\* str.endswith
EndsWith(s, t) ==
  /\ Len(t) <= Len(s)
  /\ SubSeq(s, Len(s) - Len(t) + 1, Len(s)) = t

\* \b between s[k] and s[k+1] (k = 0 is the start, k = Len(s) the end)
WordBoundary(s, k) ==
  LET before == k >= 1 /\ IsWordChar(s[k])
      after  == k < Len(s) /\ IsWordChar(s[k + 1])
  IN  before # after

\* the pattern without its \b anchors: any substring occurrence matches
MatchesAt_substring(s, name, i) ==
  /\ i >= 1
  /\ i + Len(name) - 1 <= Len(s)
  /\ SubSeq(s, i, i + Len(name) - 1) = name

\* rf"\b{name}\b" matches at index i (1-based start)
MatchesAt(s, name, i) ==
  /\ i >= 1
  /\ i + Len(name) - 1 <= Len(s)
  /\ SubSeq(s, i, i + Len(name) - 1) = name
  /\ WordBoundary(s, i - 1)
  /\ WordBoundary(s, i + Len(name) - 1)

\* start of the last match yielded by re.finditer (matches are taken left to
\* right and do not overlap), 0 when there is none
RECURSIVE LastMatchFrom(_, _, _, _)
LastMatchFrom(s, name, i, last) ==
  IF i + Len(name) - 1 > Len(s) THEN last
  ELSE IF MatchesAt(s, name, i)
       THEN LastMatchFrom(s, name, i + Len(name), i)
       ELSE LastMatchFrom(s, name, i + 1, last)

LastMatch(s, name) == LastMatchFrom(s, name, 1, 0)

(***************************************************************************)
(* Country table of medal_events.py, in the insertion order of the dict.   *)
(***************************************************************************)
COUNTRY_TO_NOC ==
   <<
      [name |-> <<"n","o","r","w","a","y">>, noc |-> <<"N","O","R">>],
      [name |-> <<"u","n","i","t","e","d"," ","s","t","a","t","e","s">>, noc |-> <<"U","S","A">>],
      [name |-> <<"i","t","a","l","y">>, noc |-> <<"I","T","A">>],
      [name |-> <<"j","a","p","a","n">>, noc |-> <<"J","P","N">>],
      [name |-> <<"a","u","s","t","r","i","a">>, noc |-> <<"A","U","T">>],
      [name |-> <<"g","e","r","m","a","n","y">>, noc |-> <<"G","E","R">>],
      [name |-> <<"c","z","e","c","h"," ","r","e","p","u","b","l","i","c">>, noc |-> <<"C","Z","E">>],
      [name |-> <<"c","z","e","c","h","i","a">>, noc |-> <<"C","Z","E">>],
      [name |-> <<"f","r","a","n","c","e">>, noc |-> <<"F","R","A">>],
      [name |-> <<"s","w","e","d","e","n">>, noc |-> <<"S","W","E">>],
      [name |-> <<"s","w","i","t","z","e","r","l","a","n","d">>, noc |-> <<"S","U","I">>],
      [name |-> <<"c","a","n","a","d","a">>, noc |-> <<"C","A","N">>],
      [name |-> <<"n","e","t","h","e","r","l","a","n","d","s">>, noc |-> <<"N","E","D">>],
      [name |-> <<"t","h","e"," ","n","e","t","h","e","r","l","a","n","d","s">>, noc |-> <<"N","E","D">>],
      [name |-> <<"h","o","l","l","a","n","d">>, noc |-> <<"N","E","D">>],
      [name |-> <<"c","h","i","n","a">>, noc |-> <<"C","H","N">>],
      [name |-> <<"p","o","l","a","n","d">>, noc |-> <<"P","O","L">>],
      [name |-> <<"s","o","u","t","h"," ","k","o","r","e","a">>, noc |-> <<"K","O","R">>],
      [name |-> <<"k","o","r","e","a">>, noc |-> <<"K","O","R">>],
      [name |-> <<"f","i","n","l","a","n","d">>, noc |-> <<"F","I","N">>],
      [name |-> <<"n","e","w"," ","z","e","a","l","a","n","d">>, noc |-> <<"N","Z","L">>],
      [name |-> <<"s","l","o","v","e","n","i","a">>, noc |-> <<"S","L","O">>],
      [name |-> <<"a","u","s","t","r","a","l","i","a">>, noc |-> <<"A","U","S">>],
      [name |-> <<"g","r","e","a","t"," ","b","r","i","t","a","i","n">>, noc |-> <<"G","B","R">>],
      [name |-> <<"u","n","i","t","e","d"," ","k","i","n","g","d","o","m">>, noc |-> <<"G","B","R">>],
      [name |-> <<"b","r","i","t","a","i","n">>, noc |-> <<"G","B","R">>],
      [name |-> <<"b","e","l","g","i","u","m">>, noc |-> <<"B","E","L">>],
      [name |-> <<"h","u","n","g","a","r","y">>, noc |-> <<"H","U","N">>],
      [name |-> <<"s","l","o","v","a","k","i","a">>, noc |-> <<"S","V","K">>],
      [name |-> <<"b","u","l","g","a","r","i","a">>, noc |-> <<"B","U","L">>],
      [name |-> <<"l","a","t","v","i","a">>, noc |-> <<"L","A","T">>],
      [name |-> <<"r","u","s","s","i","a">>, noc |-> <<"R","U","S">>],
      [name |-> <<"r","o","c">>, noc |-> <<"R","U","S">>],
      [name |-> <<"s","p","a","i","n">>, noc |-> <<"E","S","P">>],
      [name |-> <<"u","k","r","a","i","n","e">>, noc |-> <<"U","K","R">>],
      [name |-> <<"c","r","o","a","t","i","a">>, noc |-> <<"C","R","O">>],
      [name |-> <<"e","s","t","o","n","i","a">>, noc |-> <<"E","S","T">>],
      [name |-> <<"l","i","t","h","u","a","n","i","a">>, noc |-> <<"L","T","U">>],
      [name |-> <<"r","o","m","a","n","i","a">>, noc |-> <<"R","O","U">>],
      [name |-> <<"k","a","z","a","k","h","s","t","a","n">>, noc |-> <<"K","A","Z">>],
      [name |-> <<"b","r","a","z","i","l">>, noc |-> <<"B","R","A">>],
      [name |-> <<"d","e","n","m","a","r","k">>, noc |-> <<"D","E","N">>],
      [name |-> <<"m","o","n","a","c","o">>, noc |-> <<"M","O","N">>],
      [name |-> <<"a","n","d","o","r","r","a">>, noc |-> <<"A","N","D">>],
      [name |-> <<"l","i","e","c","h","t","e","n","s","t","e","i","n">>, noc |-> <<"L","I","E">>]
   >>

\* length of the longest country name
MaxNameLen ==
  CHOOSE n \in 1..64 :
    /\ \E i \in 1..Len(COUNTRY_TO_NOC) : Len(COUNTRY_TO_NOC[i].name) = n
    /\ \A i \in 1..Len(COUNTRY_TO_NOC) : Len(COUNTRY_TO_NOC[i].name) <= n

\* names of one length, in dict order
NamesOfLen(n) ==
  SelectSeq(COUNTRY_TO_NOC, LAMBDA e : Len(e.name) = n)

\* sorted(COUNTRY_TO_NOC.keys(), key=len, reverse=True): a stable sort, so
\* names of equal length keep the insertion order of the dict
RECURSIVE NamesFromLen(_)
NamesFromLen(n) ==
  IF n = 0 THEN <<>> ELSE NamesOfLen(n) \o NamesFromLen(n - 1)

\* the same sort without reverse=True: shortest names first
RECURSIVE NamesUpToLen(_)
NamesUpToLen(n) ==
  IF n = 0 THEN <<>> ELSE NamesUpToLen(n - 1) \o NamesOfLen(n)

COUNTRY_NAMES_BY_LENGTH_ascending == NamesUpToLen(MaxNameLen)

COUNTRY_NAMES_BY_LENGTH == NamesFromLen(MaxNameLen)

NOCS == {COUNTRY_TO_NOC[i].noc : i \in 1..Len(COUNTRY_TO_NOC)}

(***************************************************************************)
(* extract_athlete_and_country                                             *)
(***************************************************************************)
\* the (None, None) result
NoneResult == [athlete |-> <<"None">>, noc |-> <<"None">>]

\* the separators of athlete.strip(" ,;:-")
Separators == {" ", ",", ";", ":", "-"}

\* cell_text after the two re.sub calls and strip()
CleanCell(cell_text) == StripSpace(CollapseSpace(StripMarkers(cell_text)))

\* athlete = prefix.strip(" ,;:-"), then whitespace collapsed and stripped
CleanAthlete(prefix) == StripSpace(CollapseSpace(StripChars(prefix, Separators)))

\* first loop: the first name of COUNTRY_NAMES_BY_LENGTH that is a suffix
RECURSIVE SuffixMatchFrom(_, _, _)
SuffixMatchFrom(cell_text, cell_lower, k) ==
  IF k > Len(COUNTRY_NAMES_BY_LENGTH) THEN NoneResult
  ELSE LET e == COUNTRY_NAMES_BY_LENGTH[k]
       IN  IF EndsWith(cell_lower, e.name)
           THEN [athlete |-> CleanAthlete(SubSeq(cell_text, 1, Len(cell_text) - Len(e.name))),
                 noc |-> e.noc]
           ELSE SuffixMatchFrom(cell_text, cell_lower, k + 1)

\* second loop: the first name of COUNTRY_NAMES_BY_LENGTH with a whole-word
\* match, split at the last match of that name
RECURSIVE FallbackMatchFrom(_, _, _)
FallbackMatchFrom(cell_text, cell_lower, k) ==
  IF k > Len(COUNTRY_NAMES_BY_LENGTH) THEN NoneResult
  ELSE LET e == COUNTRY_NAMES_BY_LENGTH[k]
           m == LastMatch(cell_lower, e.name)
       IN  IF m # 0
           THEN [athlete |-> CleanAthlete(SubSeq(cell_text, 1, m - 1)),
                 noc |-> e.noc]
           ELSE FallbackMatchFrom(cell_text, cell_lower, k + 1)

extract_athlete_and_country(raw) ==
  IF raw = <<>> \/ raw = <<"n","a","n">> \/ Len(raw) < 3
  THEN NoneResult
  ELSE LET cell_text  == CleanCell(raw)
           cell_lower == StrLower(cell_text)
           suffix     == SuffixMatchFrom(cell_text, cell_lower, 1)
       IN  IF suffix # NoneResult THEN suffix
           ELSE FallbackMatchFrom(cell_text, cell_lower, 1)

(***************************************************************************)
(* Cells fed to the splitter: concatenations of at most MaxParts tokens,   *)
(* and the cells the specification quotes.                                 *)
(***************************************************************************)
CellTokens ==
  { <<"K","i","m"," ">>,
    <<"S","o","u","t","h"," ">>,
    <<"K","o","r","e","a">>,
    <<"R","O","C">>,
    <<"G","e","r","m","a","n","y"," ">>,
    <<"I","t","a","l","y"," ">>,
    <<"-">>,
    <<",">>,
    <<" ">>,
    <<"\t">>,
    <<"[","1","]">>,
    <<"[">>,
    <<"x">>,
    <<"n","a","n">> }

RECURSIVE Concats(_)
Concats(n) ==
  IF n = 0 THEN {<<>>}
  ELSE LET shorter == Concats(n - 1)
       IN  shorter \cup {c \o t : c \in shorter, t \in CellTokens}

QuotedCells ==
  { <<"F","r","a","n","j","o"," ","v","o","n"," ","A","l","l","m","e","n"," ","S","w","i","t","z","e","r","l","a","n","d">>,
    <<"N","a","N">>,
    <<"F","r","a","n","j","o"," ","v","o","n"," ","A","l","l","m","e","n"," "," ","S","w","i","t","z","e","r","l","a","n","d">>,
    <<"K","i","m"," ","M","i","n","-","j","a","e"," ","S","o","u","t","h"," ","K","o","r","e","a">> }

Cells == Concats(MaxParts) \cup QuotedCells

(***************************************************************************)
(* fetch_medal_winner_rows: the tables of the page, as pandas.read_html    *)
(* returns them.  A table is its column labels and its rows, each row one  *)
(* cell text per column; a missing cell reads "nan".                       *)
(***************************************************************************)
MaxTables == 3

\* TABLE_TO_SPORT, keyed by the 0-based index of the table in the page
TABLE_TO_SPORT_ITEMS ==
  <<
     [idx |-> 2, sport |-> <<"A","l","p","i","n","e"," ","s","k","i","i","n","g">>, gender |-> <<"M","e","n","'","s">>],
     [idx |-> 3, sport |-> <<"A","l","p","i","n","e"," ","s","k","i","i","n","g">>, gender |-> <<"W","o","m","e","n","'","s">>],
     [idx |-> 4, sport |-> <<"B","i","a","t","h","l","o","n">>, gender |-> <<"M","e","n","'","s">>],
     [idx |-> 5, sport |-> <<"B","i","a","t","h","l","o","n">>, gender |-> <<"W","o","m","e","n","'","s">>],
     [idx |-> 6, sport |-> <<"B","i","a","t","h","l","o","n">>, gender |-> <<"M","i","x","e","d">>],
     [idx |-> 7, sport |-> <<"B","o","b","s","l","e","i","g","h">>, gender |-> <<>>],
     [idx |-> 8, sport |-> <<"C","r","o","s","s","-","c","o","u","n","t","r","y"," ","s","k","i","i","n","g">>, gender |-> <<"M","e","n","'","s">>],
     [idx |-> 9, sport |-> <<"C","r","o","s","s","-","c","o","u","n","t","r","y"," ","s","k","i","i","n","g">>, gender |-> <<"W","o","m","e","n","'","s">>],
     [idx |-> 10, sport |-> <<"C","u","r","l","i","n","g">>, gender |-> <<>>],
     [idx |-> 11, sport |-> <<"F","i","g","u","r","e"," ","s","k","a","t","i","n","g">>, gender |-> <<>>],
     [idx |-> 12, sport |-> <<"F","r","e","e","s","t","y","l","e"," ","s","k","i","i","n","g">>, gender |-> <<"M","e","n","'","s">>],
     [idx |-> 13, sport |-> <<"F","r","e","e","s","t","y","l","e"," ","s","k","i","i","n","g">>, gender |-> <<"W","o","m","e","n","'","s">>],
     [idx |-> 14, sport |-> <<"F","r","e","e","s","t","y","l","e"," ","s","k","i","i","n","g">>, gender |-> <<"M","i","x","e","d">>],
     [idx |-> 15, sport |-> <<"I","c","e"," ","h","o","c","k","e","y">>, gender |-> <<>>],
     [idx |-> 16, sport |-> <<"L","u","g","e">>, gender |-> <<>>],
     [idx |-> 17, sport |-> <<"N","o","r","d","i","c"," ","c","o","m","b","i","n","e","d">>, gender |-> <<>>],
     [idx |-> 18, sport |-> <<"S","h","o","r","t"," ","t","r","a","c","k"," ","s","p","e","e","d"," ","s","k","a","t","i","n","g">>, gender |-> <<"M","e","n","'","s">>],
     [idx |-> 19, sport |-> <<"S","h","o","r","t"," ","t","r","a","c","k"," ","s","p","e","e","d"," ","s","k","a","t","i","n","g">>, gender |-> <<"W","o","m","e","n","'","s">>],
     [idx |-> 20, sport |-> <<"S","h","o","r","t"," ","t","r","a","c","k"," ","s","p","e","e","d"," ","s","k","a","t","i","n","g">>, gender |-> <<"M","i","x","e","d">>],
     [idx |-> 21, sport |-> <<"S","k","e","l","e","t","o","n">>, gender |-> <<>>],
     [idx |-> 22, sport |-> <<"S","k","i"," ","j","u","m","p","i","n","g">>, gender |-> <<"M","e","n","'","s">>],
     [idx |-> 23, sport |-> <<"S","k","i"," ","j","u","m","p","i","n","g">>, gender |-> <<"W","o","m","e","n","'","s">>],
     [idx |-> 24, sport |-> <<"S","k","i"," ","j","u","m","p","i","n","g">>, gender |-> <<"M","i","x","e","d">>],
     [idx |-> 25, sport |-> <<"S","n","o","w","b","o","a","r","d","i","n","g">>, gender |-> <<"M","e","n","'","s">>],
     [idx |-> 26, sport |-> <<"S","n","o","w","b","o","a","r","d","i","n","g">>, gender |-> <<"M","e","n","'","s">>],
     [idx |-> 27, sport |-> <<"S","n","o","w","b","o","a","r","d","i","n","g">>, gender |-> <<"W","o","m","e","n","'","s">>],
     [idx |-> 28, sport |-> <<"S","n","o","w","b","o","a","r","d","i","n","g">>, gender |-> <<"M","i","x","e","d">>],
     [idx |-> 29, sport |-> <<"S","p","e","e","d"," ","s","k","a","t","i","n","g">>, gender |-> <<"M","e","n","'","s">>],
     [idx |-> 30, sport |-> <<"S","p","e","e","d"," ","s","k","a","t","i","n","g">>, gender |-> <<"W","o","m","e","n","'","s">>]
  >>

TABLE_TO_SPORT_KEYS == {TABLE_TO_SPORT_ITEMS[i].idx : i \in 1..Len(TABLE_TO_SPORT_ITEMS)}

\* TABLE_TO_SPORT.get(table_idx), for a key of the dict
TABLE_TO_SPORT(idx) ==
  LET e == TABLE_TO_SPORT_ITEMS[CHOOSE i \in 1..Len(TABLE_TO_SPORT_ITEMS) :
                                  TABLE_TO_SPORT_ITEMS[i].idx = idx]
  IN  [sport |-> e.sport, gender |-> e.gender]

MEDAL_WINNERS_URL == "https://en.wikipedia.org/wiki/List_of_2026_Winter_Olympics_medal_winners"

\* s starts with t
StartsWith(s, t) == Len(t) <= Len(s) /\ SubSeq(s, 1, Len(t)) = t

\* str.replace(old, ""): every non-overlapping occurrence, left to right
RECURSIVE Remove(_, _)
Remove(s, old) ==
  IF s = <<>> THEN <<>>
  ELSE IF StartsWith(s, old) THEN Remove(SubSeq(s, Len(old) + 1, Len(s)), old)
  ELSE <<Head(s)>> \o Remove(Tail(s), old)

clean_event_name(event_raw) ==
  CollapseSpace(StripSpace(Remove(Remove(event_raw, <<" ","d","e","t","a","i","l","s">>), <<"d","e","t","a","i","l","s">>)))

\* cols = [str(c).lower() for c in table.columns]
LowerColumns(table) == {StrLower(table.columns[i]) : i \in 1..Len(table.columns)}

\* the table passes the header test of the loop
HasMedalHeaders(table) ==
  /\ <<"e","v","e","n","t">> \in LowerColumns(table)
  /\ <<"g","o","l","d">> \in LowerColumns(table)

\* str(row.get(label, '')): the cell under the column with exactly that label
RowGet(table, row, label) ==
  IF \E i \in 1..Len(table.columns) : table.columns[i] = label
  THEN row[CHOOSE i \in 1..Len(table.columns) :
             /\ table.columns[i] = label
             /\ \A j \in 1..(i - 1) : table.columns[j] # label]
  ELSE <<>>

NanText == <<"n","a","n">>

\* only the test of the raw cell: the cleaned name is not looked at
RowSkipped_blank_only(table, row) ==
  LET event_raw == RowGet(table, row, <<"E","v","e","n","t">>)
  IN  event_raw = <<>> \/ event_raw = NanText

\* the two tests that make the row loop continue before the medal loop
RowSkipped(table, row) ==
  LET event_raw == RowGet(table, row, <<"E","v","e","n","t">>)
  IN  IF event_raw = <<>> \/ event_raw = NanText THEN TRUE
      ELSE \/ clean_event_name(event_raw) = <<>>
           \/ StrLower(clean_event_name(event_raw)) = <<"e","v","e","n","t">>

\* the label without the event name: the sport and gender of the table only
FullEvent_no_event(sport_info, event_name) ==
  IF sport_info.gender # <<>>
  THEN sport_info.gender \o <<" ">> \o sport_info.sport \o <<":", " ">>
  ELSE sport_info.sport \o <<":", " ">>

\* full_event of a row
FullEvent(sport_info, event_name) ==
  IF sport_info.gender # <<>>
  THEN sport_info.gender \o <<" ">> \o sport_info.sport \o <<":", " ">> \o event_name
  ELSE sport_info.sport \o <<":", " ">> \o event_name

MEDAL_TYPES == <<<<"G","o","l","d">>, <<"S","i","l","v","e","r">>, <<"B","r","o","n","z","e">>>>

RowData(sport_info, event_name, athlete, medal_type, noc) ==
  [sport      |-> sport_info.sport,
   gender     |-> sport_info.gender,
   event      |-> event_name,
   full_event |-> FullEvent(sport_info, event_name),
   athlete    |-> athlete,
   medal      |-> StrLower(medal_type),
   noc        |-> noc,
   url        |-> MEDAL_WINNERS_URL]

\* the key without .lower(): rows are compared as written
DedupeKey_exact(row_data) ==
  <<row_data.sport, row_data.gender, row_data.event,
    row_data.medal, row_data.noc, row_data.athlete>>

DedupeKey(row_data) ==
  <<StrLower(row_data.sport), StrLower(row_data.gender), StrLower(row_data.event),
    row_data.medal, row_data.noc, StrLower(row_data.athlete)>>

\* the medal cell is skipped before or after the split
MedalCellSkipped(medal_cell) ==
  IF medal_cell = <<>> \/ medal_cell = NanText \/ medal_cell = <<"N","a","N">>
  THEN TRUE
  ELSE LET noc == extract_athlete_and_country(medal_cell).noc
       IN  noc = <<"None">> \/ noc = <<>>

\* the medal loop without the test of noc: every non-blank cell is recorded
RECURSIVE MedalLoop_unresolved(_, _, _, _, _)
MedalLoop_unresolved(table, row, sport_info, k, acc) ==
  IF k > Len(MEDAL_TYPES) THEN acc
  ELSE LET medal_cell == RowGet(table, row, MEDAL_TYPES[k])
       IN  IF medal_cell = <<>> \/ medal_cell = NanText \/ medal_cell = <<"N","a","N">>
           THEN MedalLoop_unresolved(table, row, sport_info, k + 1, acc)
           ELSE LET result   == extract_athlete_and_country(medal_cell)
                    row_data == RowData(sport_info,
                                        clean_event_name(RowGet(table, row, <<"E","v","e","n","t">>)),
                                        IF result = NoneResult THEN <<>> ELSE result.athlete,
                                        MEDAL_TYPES[k],
                                        IF result = NoneResult THEN <<>> ELSE result.noc)
                IN  IF DedupeKey(row_data) \in acc.seen_rows
                    THEN MedalLoop_unresolved(table, row, sport_info, k + 1, acc)
                    ELSE MedalLoop_unresolved(table, row, sport_info, k + 1,
                           [winner_rows |-> Append(acc.winner_rows, row_data),
                            seen_rows   |-> acc.seen_rows \cup {DedupeKey(row_data)}])

\* for medal_type in ['Gold', 'Silver', 'Bronze'], from the k-th type on
RECURSIVE MedalLoop(_, _, _, _, _)
MedalLoop(table, row, sport_info, k, acc) ==
  IF k > Len(MEDAL_TYPES) THEN acc
  ELSE LET medal_cell == RowGet(table, row, MEDAL_TYPES[k])
       IN  IF MedalCellSkipped(medal_cell)
           THEN MedalLoop(table, row, sport_info, k + 1, acc)
           ELSE LET result   == extract_athlete_and_country(medal_cell)
                    row_data == RowData(sport_info,
                                        clean_event_name(RowGet(table, row, <<"E","v","e","n","t">>)),
                                        result.athlete, MEDAL_TYPES[k], result.noc)
                IN  IF DedupeKey(row_data) \in acc.seen_rows
                    THEN MedalLoop(table, row, sport_info, k + 1, acc)
                    ELSE MedalLoop(table, row, sport_info, k + 1,
                           [winner_rows |-> Append(acc.winner_rows, row_data),
                            seen_rows   |-> acc.seen_rows \cup {DedupeKey(row_data)}])

\* for idx, row in table.iterrows(), from the r-th row on
RECURSIVE RowLoop(_, _, _, _)
RowLoop(table, sport_info, r, acc) ==
  IF r > Len(table.rows) THEN acc
  ELSE IF RowSkipped(table, table.rows[r]) THEN RowLoop(table, sport_info, r + 1, acc)
  ELSE RowLoop(table, sport_info, r + 1, MedalLoop(table, table.rows[r], sport_info, 1, acc))

\* for table_idx, table in enumerate(tables), from the table at index t on
RECURSIVE TableLoop(_, _, _)
TableLoop(page, t, acc) ==
  IF t >= Len(page) THEN acc
  ELSE IF ~HasMedalHeaders(page[t + 1]) \/ t \notin TABLE_TO_SPORT_KEYS
       THEN TableLoop(page, t + 1, acc)
  ELSE TableLoop(page, t + 1, RowLoop(page[t + 1], TABLE_TO_SPORT(t), 1, acc))

\* fetch_medal_winner_rows on the tables of a page that was read
fetch_medal_winner_rows(page) ==
  TableLoop(page, 0, [winner_rows |-> <<>>, seen_rows |-> {}]).winner_rows


(***************************************************************************)
(* Pages fed to the extractor: at most MaxTables tables of a catalogue.    *)
(***************************************************************************)
\* a well-formed medal table with a single gold row for Switzerland
SwissGoldTable ==
  [columns |-> <<<<"E","v","e","n","t">>, <<"G","o","l","d">>, <<"S","i","l","v","e","r">>, <<"B","r","o","n","z","e">>>>,
   rows |-> <<<<<<"D","o","w","n","h","i","l","l"," ","d","e","t","a","i","l","s">>, <<"F","r","a","n","j","o"," ","v","o","n"," ","A","l","l","m","e","n"," "," ","S","w","i","t","z","e","r","l","a","n","d">>, <<"n","a","n">>, <<"n","a","n">>>>>>]

\* a malformed table without a "gold" header
NoGoldTable ==
  [columns |-> <<<<"E","v","e","n","t">>, <<"W","i","n","n","e","r">>, <<"S","i","l","v","e","r">>, <<"B","r","o","n","z","e">>>>,
   rows |-> <<<<<<"D","o","w","n","h","i","l","l">>, <<"K","i","m"," ","K","o","r","e","a">>, <<"I","t","a","l","y">>, <<"n","a","n">>>>>>]

\* a table of the page that is not an event table
StandingsTable ==
  [columns |-> <<<<"R","a","n","k">>, <<"N","O","C">>, <<"G","o","l","d">>, <<"T","o","t","a","l">>>>,
   rows |-> <<<<<<"1">>, <<"N","o","r","w","a","y">>, <<"3">>, <<"5">>>>>>]

\* the same gold medal three times, the copies differing in whitespace and a
\* footnote marker of the medal cell, then in case; a team credit and an
\* unknown country
RepeatedRowsTable ==
  [columns |-> <<<<"E","v","e","n","t">>, <<"G","o","l","d">>, <<"S","i","l","v","e","r">>, <<"B","r","o","n","z","e">>>>,
   rows |-> <<<<<<"D","o","w","n","h","i","l","l">>, <<"F","r","a","n","j","o"," ","v","o","n"," ","A","l","l","m","e","n"," ","S","w","i","t","z","e","r","l","a","n","d","[","1","]">>, <<"K","i","m"," "," ","K","o","r","e","a">>, <<"U","n","k","n","o","w","n","l","a","n","d">>>>,
             <<<<"D","o","w","n","h","i","l","l"," ">>, <<"F","r","a","n","j","o"," ","v","o","n"," "," ","A","l","l","m","e","n","\t","S","w","i","t","z","e","r","l","a","n","d">>, <<"S","w","i","t","z","e","r","l","a","n","d">>, <<"N","a","N">>>>,
             <<<<"D","O","W","N","H","I","L","L"," "," ","d","e","t","a","i","l","s">>, <<"F","R","A","N","J","O"," ","v","o","n"," ","A","l","l","m","e","n"," ","S","w","i","t","z","e","r","l","a","n","d">>, <<"n","a","n">>, <<"n","a","n">>>>>>]

\* the same medal row twice, the second event cell carrying a footnote marker,
\* and a repeated header row
FootnotedEventTable ==
  [columns |-> <<<<"E","v","e","n","t">>, <<"G","o","l","d">>, <<"S","i","l","v","e","r">>, <<"B","r","o","n","z","e">>>>,
   rows |-> <<<<<<"S","l","a","l","o","m">>, <<"K","i","m"," ","K","o","r","e","a">>, <<"I","t","a","l","y">>, <<"n","a","n">>>>,
             <<<<"S","l","a","l","o","m","[","2","]">>, <<"K","i","m"," ","K","o","r","e","a">>, <<"I","t","a","l","y">>, <<"n","a","n">>>>,
             <<<<"E","v","e","n","t">>, <<"G","o","l","d">>, <<"S","i","l","v","e","r">>, <<"B","r","o","n","z","e">>>>>>]

\* rows whose event cell is blank or empty after cleaning, then a valid row
\* whose event name carries the gender, with an empty cell and a cell that
\* only the fallback match resolves
BlankEventTable ==
  [columns |-> <<<<"E","v","e","n","t">>, <<"G","o","l","d">>, <<"S","i","l","v","e","r">>, <<"B","r","o","n","z","e">>>>,
   rows |-> <<<<<<"n","a","n">>, <<"I","t","a","l","y">>, <<"n","a","n">>, <<"n","a","n">>>>,
             <<<<" ","d","e","t","a","i","l","s">>, <<"N","o","r","w","a","y">>, <<"n","a","n">>, <<"n","a","n">>>>,
             <<<<"M","e","n","'","s"," ","g","i","a","n","t"," ","s","l","a","l","o","m">>, <<"K","i","m"," ","[","a","]","K","o","r","e","a">>, <<>>, <<"G","e","r","m","a","n","y"," ","x">>>>>>]

\* a medal table whose headers are all lower case
LowerHeaderTable ==
  [columns |-> <<<<"e","v","e","n","t">>, <<"g","o","l","d">>, <<"s","i","l","v","e","r">>, <<"b","r","o","n","z","e">>>>,
   rows |-> <<<<<<"D","o","w","n","h","i","l","l">>, <<"F","r","a","n","j","o"," ","v","o","n"," ","A","l","l","m","e","n"," ","S","w","i","t","z","e","r","l","a","n","d">>, <<"n","a","n">>, <<"n","a","n">>>>>>]

TableCatalog ==
  {SwissGoldTable, NoGoldTable, StandingsTable, RepeatedRowsTable,
   FootnotedEventTable, BlankEventTable, LowerHeaderTable}

RECURSIVE PagesUpTo(_)
PagesUpTo(n) ==
  IF n = 0 THEN {<<>>}
  ELSE LET shorter == PagesUpTo(n - 1)
       IN  shorter \cup {Append(page, t) : page \in shorter, t \in TableCatalog}

Pages == PagesUpTo(MaxTables)

(***************************************************************************)
(* fetch_medal_events: grouping of the winner rows by country code.        *)
(***************************************************************************)
MaxRecords == 4

\* a winner row as fetch_medal_winner_rows builds it
WinnerRow(sport, gender, event, athlete, medal, noc) ==
  [sport      |-> sport,
   gender     |-> gender,
   event      |-> event,
   full_event |-> FullEvent([sport |-> sport, gender |-> gender], event),
   athlete    |-> athlete,
   medal      |-> medal,
   noc        |-> noc,
   url        |-> MEDAL_WINNERS_URL]

\* if not noc: the code is None or empty
NoNoc(noc) == noc = <<"None">> \/ noc = <<>>

EventData(row) ==
  [event   |-> row.full_event,
   athlete |-> row.athlete,
   medal   |-> row.medal,
   url     |-> row.url]

\* the key without .lower()
GroupKey_exact(event_data) ==
  <<event_data.event, event_data.medal, event_data.athlete>>

GroupKey(event_data) ==
  <<StrLower(event_data.event), event_data.medal, StrLower(event_data.athlete)>>

\* record lists fed to the grouping: at most MaxRecords rows of a catalogue
GroupRecords ==
  { WinnerRow(<<"L","u","g","e">>, <<>>, <<"S","i","n","g","l","e","s">>,
              <<"K","i","m">>, <<"g","o","l","d">>, <<"S","U","I">>),
    WinnerRow(<<"L","U","G","E">>, <<>>, <<"s","i","n","g","l","e","s">>,
              <<"K","I","M">>, <<"g","o","l","d">>, <<"S","U","I">>),
    WinnerRow(<<"L","u","g","e">>, <<>>, <<"S","i","n","g","l","e","s">>,
              <<"K","i","m">>, <<"g","o","l","d">>, <<"K","O","R">>),
    WinnerRow(<<"L","u","g","e">>, <<>>, <<"S","i","n","g","l","e","s">>,
              <<"K","i","m">>, <<"s","i","l","v","e","r">>, <<"S","U","I">>),
    WinnerRow(<<"L","u","g","e">>, <<>>, <<"S","i","n","g","l","e","s">>,
              <<"K","i","m">>, <<"g","o","l","d">>, <<>>),
    WinnerRow(<<"L","u","g","e">>, <<>>, <<"S","i","n","g","l","e","s">>,
              <<"K","i","m">>, <<"g","o","l","d">>, <<"None">>),
    WinnerRow(<<"L","u","g","e">>, <<"M","e","n","'","s">>, <<"D","o","u","b","l","e","s">>,
              <<>>, <<"b","r","o","n","z","e">>, <<"S","U","I">>) }

RECURSIVE RecordListsUpTo(_)
RecordListsUpTo(n) ==
  IF n = 0 THEN {<<>>}
  ELSE LET shorter == RecordListsUpTo(n - 1)
       IN  shorter \cup {Append(l, r) : l \in shorter, r \in GroupRecords}

RecordLists == RecordListsUpTo(MaxRecords)

(***************************************************************************)
(* matches_daily_double of olympic-dash.py.                                *)
(***************************************************************************)
normalize_text(value) == CollapseSpace(StrLower(StripSpace(value)))

\* re.sub(r"[^a-z0-9]+", "", ...)
canonical_text(value) ==
  SelectSeq(normalize_text(value),
            LAMBDA c : c \in Range(LowerChars) \cup Range(DigitChars))

CanonicalAll(texts) == [i \in 1..Len(texts) |-> canonical_text(texts[i])]

\* keyword in event_name
Contains(s, sub) ==
  \E i \in 0..(Len(s) - Len(sub)) : SubSeq(s, i + 1, i + Len(sub)) = sub

NonEmpty(texts) == SelectSeq(texts, LAMBDA t : t # <<>>)

\* the function before event_exact was honoured
matches_daily_double_noexact(winner_row, event_config) ==
  LET sport             == canonical_text(winner_row.sport)
      gender            == canonical_text(winner_row.gender)
      event_name        == canonical_text(winner_row.event)
      required_sport    == canonical_text(event_config.sport)
      required_gender   == canonical_text(event_config.gender)
      required_keywords == NonEmpty(CanonicalAll(event_config.event_keywords))
      required_exclude_keywords ==
        NonEmpty(CanonicalAll(event_config.event_exclude_keywords))
  IN  IF required_sport # <<>> /\ sport # required_sport THEN FALSE
      ELSE IF required_gender # <<>> /\ gender # required_gender THEN FALSE
      ELSE IF \E i \in 1..Len(required_exclude_keywords) :
                Contains(event_name, required_exclude_keywords[i])
           THEN FALSE
      ELSE \A i \in 1..Len(required_keywords) : Contains(event_name, required_keywords[i])

matches_daily_double(winner_row, event_config) ==
  LET sport             == canonical_text(winner_row.sport)
      gender            == canonical_text(winner_row.gender)
      event_name        == canonical_text(winner_row.event)
      required_sport    == canonical_text(event_config.sport)
      required_gender   == canonical_text(event_config.gender)
      required_keywords == NonEmpty(CanonicalAll(event_config.event_keywords))
      required_exclude_keywords ==
        NonEmpty(CanonicalAll(event_config.event_exclude_keywords))
      required_exact    == NonEmpty(CanonicalAll(event_config.event_exact))
  IN  IF required_sport # <<>> /\ sport # required_sport THEN FALSE
      ELSE IF required_gender # <<>> /\ gender # required_gender THEN FALSE
      ELSE IF required_exact # <<>> /\ event_name \notin Range(required_exact) THEN FALSE
      ELSE IF \E i \in 1..Len(required_exclude_keywords) :
                Contains(event_name, required_exclude_keywords[i])
           THEN FALSE
      ELSE \A i \in 1..Len(required_keywords) : Contains(event_name, required_keywords[i])

\* DAILY_DOUBLE_EVENTS; a key the dict lacks reads as "" or []
DAILY_DOUBLE_EVENTS ==
  <<[name |-> <<"W","o","m","e","n","'","s"," ","S","k","i"," ","C","r","o","s","s">>,
     sport |-> <<"F","r","e","e","s","t","y","l","e"," ","s","k","i","i","n","g">>,
     gender |-> <<"W","o","m","e","n","'","s">>,
     event_keywords |-> <<<<"s","k","i"," ","c","r","o","s","s">>>>,
     event_exclude_keywords |-> <<>>,
     event_exact |-> <<>>],
    [name |-> <<"W","o","m","e","n","'","s"," ","L","u","g","e"," ","S","i","n","g","l","e","s">>,
     sport |-> <<"L","u","g","e">>,
     gender |-> <<>>,
     event_keywords |-> <<<<"w","o","m","e","n","'","s"," ","s","i","n","g","l","e","s">>>>,
     event_exclude_keywords |-> <<>>,
     event_exact |-> <<>>],
    [name |-> <<"M","e","n","'","s"," ","1","5","0","0","m"," ","S","h","o","r","t"," ","T","r","a","c","k"," ","S","p","e","e","d"," ","S","k","a","t","i","n","g">>,
     sport |-> <<"S","h","o","r","t"," ","t","r","a","c","k"," ","s","p","e","e","d"," ","s","k","a","t","i","n","g">>,
     gender |-> <<"M","e","n","'","s">>,
     event_keywords |-> <<<<"1","5","0","0">>>>,
     event_exclude_keywords |-> <<>>,
     event_exact |-> <<>>],
    [name |-> <<"M","e","n","'","s"," ","A","l","p","i","n","e"," ","S","l","a","l","o","m">>,
     sport |-> <<"A","l","p","i","n","e"," ","s","k","i","i","n","g">>,
     gender |-> <<"M","e","n","'","s">>,
     event_keywords |-> <<<<"s","l","a","l","o","m">>>>,
     event_exclude_keywords |-> <<>>,
     event_exact |-> <<<<"s","l","a","l","o","m">>>>]>>

\* the descriptor of the specification's example, exact match "giant slalom"
GiantSlalomConfig ==
    [name |-> <<"M","e","n","'","s"," ","G","i","a","n","t"," ","S","l","a","l","o","m">>,
     sport |-> <<"A","l","p","i","n","e"," ","s","k","i","i","n","g">>,
     gender |-> <<"M","e","n","'","s">>,
     event_keywords |-> <<>>,
     event_exclude_keywords |-> <<>>,
     event_exact |-> <<<<"g","i","a","n","t"," ","s","l","a","l","o","m">>>>]

\* a descriptor with an excluded keyword
ExcludeConfig ==
    [name |-> <<"A","l","p","i","n","e"," ","S","l","a","l","o","m">>,
     sport |-> <<"A","l","p","i","n","e"," ","s","k","i","i","n","g">>,
     gender |-> <<>>,
     event_keywords |-> <<<<"s","l","a","l","o","m">>>>,
     event_exclude_keywords |-> <<<<"g","i","a","n","t">>>>,
     event_exact |-> <<>>]

\* a descriptor with no constraint at all
EmptyConfig ==
    [name |-> <<"A","n","y">>,
     sport |-> <<>>,
     gender |-> <<>>,
     event_keywords |-> <<>>,
     event_exclude_keywords |-> <<>>,
     event_exact |-> <<>>]

\* a descriptor whose keywords are empty once canonicalized
BlankKeywordConfig ==
    [name |-> <<"L","u","g","e">>,
     sport |-> <<"L","u","g","e">>,
     gender |-> <<>>,
     event_keywords |-> <<<<"-">>>>,
     event_exclude_keywords |-> <<<<" ">>>>,
     event_exact |-> <<<<"!">>>>]

\* a descriptor with two required keywords
TwoKeywordConfig ==
    [name |-> <<"R","e","l","a","y">>,
     sport |-> <<"S","h","o","r","t"," ","t","r","a","c","k"," ","s","p","e","e","d"," ","s","k","a","t","i","n","g">>,
     gender |-> <<>>,
     event_keywords |-> <<<<"r","e","l","a","y">>, <<"5","0","0","0">>>>,
     event_exclude_keywords |-> <<>>,
     event_exact |-> <<>>]

MatchConfigs ==
  Range(DAILY_DOUBLE_EVENTS) \cup
  {GiantSlalomConfig, ExcludeConfig, EmptyConfig, BlankKeywordConfig, TwoKeywordConfig}

\* the sport, gender and event of the rows tested against the descriptors
MatchRows ==
  { [sport |-> <<"A","l","p","i","n","e"," ","s","k","i","i","n","g">>, gender |-> <<"M","e","n","'","s">>,
     event |-> <<"S","l","a","l","o","m">>],
    [sport |-> <<"A","l","p","i","n","e"," ","s","k","i","i","n","g">>, gender |-> <<"M","e","n","'","s">>,
     event |-> <<"G","i","a","n","t"," ","s","l","a","l","o","m">>],
    [sport |-> <<"A","l","p","i","n","e"," ","s","k","i","i","n","g">>, gender |-> <<"W","o","m","e","n","'","s">>,
     event |-> <<"S","l","a","l","o","m">>],
    [sport |-> <<"F","r","e","e","s","t","y","l","e"," ","s","k","i","i","n","g">>, gender |-> <<"W","o","m","e","n","'","s">>,
     event |-> <<"S","k","i"," ","c","r","o","s","s">>],
    [sport |-> <<"F","r","e","e","s","t","y","l","e"," ","s","k","i","i","n","g">>, gender |-> <<"M","e","n","'","s">>,
     event |-> <<"S","k","i"," ","c","r","o","s","s">>],
    [sport |-> <<"L","u","g","e">>, gender |-> <<>>,
     event |-> <<"W","o","m","e","n","'","s"," ","s","i","n","g","l","e","s">>],
    [sport |-> <<"L","u","g","e">>, gender |-> <<>>,
     event |-> <<"M","e","n","'","s"," ","s","i","n","g","l","e","s">>],
    [sport |-> <<"S","h","o","r","t"," ","t","r","a","c","k"," ","s","p","e","e","d"," ","s","k","a","t","i","n","g">>, gender |-> <<"M","e","n","'","s">>,
     event |-> <<"1","5","0","0"," ","m","e","t","r","e","s">>],
    [sport |-> <<"S","p","e","e","d"," ","s","k","a","t","i","n","g">>, gender |-> <<"M","e","n","'","s">>,
     event |-> <<"1","5","0","0"," ","m","e","t","r","e","s">>],
    [sport |-> <<"A","L","P","I","N","E"," "," ","S","K","I","I","N","G">>, gender |-> <<" ","m","e","n","'","s">>,
     event |-> <<"S","L","A","L","O","M","\t">>],
    [sport |-> <<"S","h","o","r","t"," ","t","r","a","c","k"," ","s","p","e","e","d"," ","s","k","a","t","i","n","g">>, gender |-> <<"M","e","n","'","s">>,
     event |-> <<"5","0","0","0"," ","m","e","t","r","e"," ","r","e","l","a","y">>],
    [sport |-> <<"S","h","o","r","t"," ","t","r","a","c","k"," ","s","p","e","e","d"," ","s","k","a","t","i","n","g">>, gender |-> <<"W","o","m","e","n","'","s">>,
     event |-> <<"3","0","0","0"," ","m","e","t","r","e"," ","r","e","l","a","y">>] }

(***************************************************************************)
(* fetch_daily_doubles of olympic-dash.py.                                 *)
(***************************************************************************)
MaxDoubleRows == 3

\* str.upper on one character
UpperChar(c) ==
  IF \E i \in 1..26 : LowerChars[i] = c
  THEN UpperChars[CHOOSE i \in 1..26 : LowerChars[i] = c]
  ELSE c

\* str.upper
StrUpper(s) == [i \in 1..Len(s) |-> UpperChar(s[i])]

IsLetter(c) == c \in Range(UpperChars) \cup Range(LowerChars)

\* str.title: a letter after a non-letter is upper-cased, any other lower-cased
StrTitle(s) ==
  [i \in 1..Len(s) |->
     IF i = 1 THEN UpperChar(s[i])
     ELSE IF IsLetter(s[i - 1]) THEN LowerChar(s[i]) ELSE UpperChar(s[i])]

\* a value for which pd.isna is true: None or NaN
IsNa(value) == value = <<"None">> \/ value = <<"NaN">>

\* clean_noc: "" for a missing value, else str(value).strip().upper()
clean_noc(value) == IF IsNa(value) THEN <<>> ELSE StrUpper(StripSpace(value))

\* the medals a row may carry to be counted
DOUBLE_MEDALS == { <<"g","o","l","d">>, <<"s","i","l","v","e","r">>, <<"b","r","o","n","z","e">> }

\* medal = normalize_text(winner_row.get("medal", ""))
DoubleMedal(winner_row) == normalize_text(winner_row.medal)

\* noc = clean_noc(winner_row.get("noc"))
DoubleNoc(winner_row) == clean_noc(winner_row.noc)

\* if medal not in ["gold", "silver", "bronze"] or not noc: continue
DoubleRowSkipped(winner_row) ==
  \/ DoubleMedal(winner_row) \notin DOUBLE_MEDALS
  \/ DoubleNoc(winner_row) = <<>>

\* the descriptor loop tried from the last descriptor to the first
FirstMatch_last(winner_row, events) ==
  IF \E i \in 1..Len(events) : matches_daily_double(winner_row, events[i])
  THEN CHOOSE i \in 1..Len(events) :
         /\ matches_daily_double(winner_row, events[i])
         /\ \A j \in (i + 1)..Len(events) :
              ~matches_daily_double(winner_row, events[j])
  ELSE 0

\* the descriptor loop: index of the first descriptor that the row matches,
\* 0 when the loop ends without a match; both exits of the loop body break
FirstMatch(winner_row, events) ==
  IF \E i \in 1..Len(events) : matches_daily_double(winner_row, events[i])
  THEN CHOOSE i \in 1..Len(events) :
         /\ matches_daily_double(winner_row, events[i])
         /\ \A j \in 1..(i - 1) : ~matches_daily_double(winner_row, events[j])
  ELSE 0

\* the key with the athlete added
RowKey_athlete(winner_row) ==
  <<canonical_text(winner_row.sport),
    canonical_text(winner_row.gender),
    canonical_text(winner_row.event),
    DoubleMedal(winner_row),
    DoubleNoc(winner_row),
    canonical_text(winner_row.athlete)>>

\* row_key
RowKey(winner_row) ==
  <<canonical_text(winner_row.sport),
    canonical_text(winner_row.gender),
    canonical_text(winner_row.event),
    DoubleMedal(winner_row),
    DoubleNoc(winner_row)>>

\* the dict appended to rows
DoubleRow(winner_row) ==
  [noc    |-> DoubleNoc(winner_row),
   gold   |-> IF DoubleMedal(winner_row) = <<"g","o","l","d">> THEN 1 ELSE 0,
   silver |-> IF DoubleMedal(winner_row) = <<"s","i","l","v","e","r">> THEN 1 ELSE 0,
   bronze |-> IF DoubleMedal(winner_row) = <<"b","r","o","n","z","e">> THEN 1 ELSE 0]

\* rows, results_by_event and seen_rows before the row loop
DoublesStart(events) ==
  [rows             |-> <<>>,
   results_by_event |-> [name \in {events[i].name : i \in 1..Len(events)} |-> <<>>],
   seen_rows        |-> [name \in {events[i].name : i \in 1..Len(events)} |-> {}]]

\* one iteration of the row loop
DoublesStep(winner_row, events, acc) ==
  IF DoubleRowSkipped(winner_row) THEN acc
  ELSE LET k == FirstMatch(winner_row, events)
       IN  IF k = 0 THEN acc
           ELSE LET name    == events[k].name
                    row_key == RowKey(winner_row)
                IN  IF row_key \in acc.seen_rows[name] THEN acc
                    ELSE [rows |-> Append(acc.rows, DoubleRow(winner_row)),
                          results_by_event |->
                            [acc.results_by_event EXCEPT ![name] =
                               Append(@, <<StrTitle(DoubleMedal(winner_row)),
                                           DoubleNoc(winner_row)>>)],
                          seen_rows |->
                            [acc.seen_rows EXCEPT ![name] = @ \cup {row_key}]]

\* the row loop from row k on
RECURSIVE DoublesLoop(_, _, _, _)
DoublesLoop(winner_rows, events, k, acc) ==
  IF k > Len(winner_rows) THEN acc
  ELSE DoublesLoop(winner_rows, events, k + 1,
                   DoublesStep(winner_rows[k], events, acc))

\* the list of results: one entry per descriptor, in configured order; an
\* entry without results carries the key "scheduled"
DoubleResults(events, results_by_event) ==
  [i \in 1..Len(events) |->
     [event     |-> events[i].name,
      results   |-> results_by_event[events[i].name],
      scheduled |-> results_by_event[events[i].name] = <<>>]]

\* the sum of one column over the rows of one country code
RECURSIVE SumColumn(_, _, _)
SumColumn(rows, noc, col) ==
  IF rows = <<>> THEN 0
  ELSE (IF Head(rows).noc = noc THEN Head(rows)[col] ELSE 0)
       + SumColumn(Tail(rows), noc, col)

\* pd.DataFrame(rows), then groupby("noc").sum() unless the frame is empty:
\* the frame is kept as a mapping from its noc column to the three sums
DoubleFrame(rows) ==
  [noc \in {rows[i].noc : i \in 1..Len(rows)} |->
     [gold   |-> SumColumn(rows, noc, "gold"),
      silver |-> SumColumn(rows, noc, "silver"),
      bronze |-> SumColumn(rows, noc, "bronze")]]

\* fetch_daily_doubles, with DAILY_DOUBLE_EVENTS passed as events
fetch_daily_doubles(winner_rows, events) ==
  LET acc == DoublesLoop(winner_rows, events, 1, DoublesStart(events))
  IN  [df      |-> DoubleFrame(acc.rows),
       results |-> DoubleResults(events, acc.results_by_event)]

\* a descriptor that any alpine event with "slalom" in its name satisfies
AnySlalomConfig ==
    [name |-> <<"A","l","p","i","n","e"," ","S","l","a","l","o","m"," ","E","v","e","n","t","s">>,
     sport |-> <<"A","l","p","i","n","e"," ","s","k","i","i","n","g">>,
     gender |-> <<>>,
     event_keywords |-> <<<<"s","l","a","l","o","m">>>>,
     event_exclude_keywords |-> <<>>,
     event_exact |-> <<>>]

\* a configuration in which a row can satisfy two descriptors
OverlappingEvents == <<DAILY_DOUBLE_EVENTS[4], AnySlalomConfig>>

\* the configurations the classifier is run with
DoubleConfigs == {DAILY_DOUBLE_EVENTS, OverlappingEvents}

\* the winner rows fed to the classifier
DoubleRecords ==
  { WinnerRow(<<"A","l","p","i","n","e"," ","s","k","i","i","n","g">>, <<"M","e","n","'","s">>, <<"S","l","a","l","o","m">>, <<"K","i","m">>, <<"g","o","l","d">>, <<"S","U","I">>),
    WinnerRow(<<"A","L","P","I","N","E"," "," ","S","K","I","I","N","G">>, <<"m","e","n","'","s">>, <<"S","L","A","L","O","M","\t">>, <<"L","e","e">>, <<" ","G","o","l","d">>, <<"s","u","i"," ">>),
    WinnerRow(<<"A","l","p","i","n","e"," ","s","k","i","i","n","g">>, <<"M","e","n","'","s">>, <<"G","i","a","n","t"," ","s","l","a","l","o","m">>, <<"K","i","m">>, <<"g","o","l","d">>, <<"S","U","I">>),
    WinnerRow(<<"A","l","p","i","n","e"," ","s","k","i","i","n","g">>, <<"M","e","n","'","s">>, <<"S","l","a","l","o","m">>, <<"K","i","m">>, <<"s","i","l","v","e","r">>, <<"N","O","R">>),
    WinnerRow(<<"A","l","p","i","n","e"," ","s","k","i","i","n","g">>, <<"M","e","n","'","s">>, <<"S","l","a","l","o","m">>, <<"K","i","m">>, <<"t","i","n">>, <<"S","U","I">>),
    WinnerRow(<<"A","l","p","i","n","e"," ","s","k","i","i","n","g">>, <<"M","e","n","'","s">>, <<"S","l","a","l","o","m">>, <<"K","i","m">>, <<"g","o","l","d">>, <<"None">>) }

RECURSIVE DoubleListsUpTo(_)
DoubleListsUpTo(n) ==
  IF n = 0 THEN {<<>>}
  ELSE LET shorter == DoubleListsUpTo(n - 1)
       IN  shorter \cup {Append(l, r) : l \in shorter, r \in DoubleRecords}

DoubleLists == DoubleListsUpTo(MaxDoubleRows)

(***************************************************************************)
(* normalize_medals_df of olympic-dash.py.  A frame is a sequence of rows; *)
(* a cell of an input frame is its text, or <<"NaN">> when it is missing.  *)
(***************************************************************************)
MaxTotals == 3

AsciiChars ==
  <<
    "\t"," ","!","#","$","%","&","'","(",")","*","+",",","-",".",
    "/","0","1","2","3","4","5","6","7","8","9",":",";","<","=",">",
    "?","@","A","B","C","D","E","F","G","H","I","J","K","L","M","N",
    "O","P","Q","R","S","T","U","V","W","X","Y","Z","[","]","^",
    "_","a","b","c","d","e","f","g","h","i","j","k","l","m","n",
    "o","p","q","r","s","t","u","v","w","x","y","z","{","|","}","~">>

\* the rank of c among the characters of AsciiChars, which are listed in the
\* order of their code points
CharCode(c) == CHOOSE i \in 1..Len(AsciiChars) : AsciiChars[i] = c

CharCodes(s) == [i \in 1..Len(s) |-> CharCode(s[i])]

\* the order of tuples, and through CharCodes the order of str
RECURSIVE IntSeqLess(_, _)
IntSeqLess(a, b) ==
  IF b = <<>> THEN FALSE
  ELSE IF a = <<>> THEN TRUE
  ELSE IF Head(a) < Head(b) THEN TRUE
  ELSE IF Head(a) > Head(b) THEN FALSE
  ELSE IntSeqLess(Tail(a), Tail(b))

\* a stable sort of items [key, row] by ascending key: each item goes behind
\* the items sorted so far whose key is not greater
RECURSIVE InsertByKey(_, _)
InsertByKey(sorted, x) ==
  IF sorted = <<>> THEN <<x>>
  ELSE IF IntSeqLess(x.key, Head(sorted).key) THEN <<x>> \o sorted
  ELSE <<Head(sorted)>> \o InsertByKey(Tail(sorted), x)

RECURSIVE StableSort(_)
StableSort(items) ==
  IF items = <<>> THEN <<>>
  ELSE InsertByKey(StableSort(SubSeq(items, 1, Len(items) - 1)), items[Len(items)])

IsDigits(s) == s # <<>> /\ \A i \in 1..Len(s) : s[i] \in Range(DigitChars)

DigitValue(c) == (CHOOSE i \in 1..10 : DigitChars[i] = c) - 1

RECURSIVE DigitsValue(_)
DigitsValue(s) ==
  IF s = <<>> THEN 0
  ELSE 10 * DigitsValue(SubSeq(s, 1, Len(s) - 1)) + DigitValue(s[Len(s)])

\* index of the first "." of s, 0 when there is none
DotIndex(s) ==
  IF \E i \in 1..Len(s) : s[i] = "."
  THEN CHOOSE i \in 1..Len(s) : s[i] = "." /\ \A j \in 1..(i - 1) : s[j] # "."
  ELSE 0

\* index of the first "e" or "E" of s, 0 when there is none
ExpIndex(s) ==
  IF \E i \in 1..Len(s) : s[i] \in {"e", "E"}
  THEN CHOOSE i \in 1..Len(s) :
         s[i] \in {"e", "E"} /\ \A j \in 1..(i - 1) : s[j] \notin {"e", "E"}
  ELSE 0

\* digits with at most one ".", before, between or after them: "5", "5.",
\* ".5" and "5.0", but not "."
IsMantissa(s) ==
  IF DotIndex(s) = 0 THEN IsDigits(s)
  ELSE /\ Len(s) > 1
       /\ \A i \in 1..Len(s) : i # DotIndex(s) => s[i] \in Range(DigitChars)

\* the mantissa of an unsigned number and its exponent, <<>> without one
MantissaOf(s) == IF ExpIndex(s) = 0 THEN s ELSE SubSeq(s, 1, ExpIndex(s) - 1)

ExponentOf(s) == IF ExpIndex(s) = 0 THEN <<>> ELSE SubSeq(s, ExpIndex(s) + 1, Len(s))

Unsigned(s) == IF s # <<>> /\ Head(s) \in {"-", "+"} THEN Tail(s) ELSE s

\* text that pd.to_numeric reads as a finite number: a mantissa and, after
\* "e" or "E", an exponent of digits with an optional sign
UnsignedNumber(s) ==
  /\ IsMantissa(MantissaOf(s))
  /\ ExpIndex(s) # 0 => IsDigits(Unsigned(ExponentOf(s)))

\* an optional sign before the number, whitespace around it ignored
IsNumber(v) == ~IsNa(v) /\ UnsignedNumber(Unsigned(StripSpace(v)))

\* text that pd.to_numeric reads as an infinite value
IsInfinite(v) ==
  /\ ~IsNa(v)
  /\ StrLower(Unsigned(v)) \in { <<"i","n","f">>, <<"i","n","f","i","n","i","t","y">> }

RECURSIVE Pow10(_)
Pow10(n) == IF n = 0 THEN 1 ELSE 10 * Pow10(n - 1)

\* the integer part of digits * 10^shift
Scaled(digits, shift) ==
  IF shift >= 0 THEN DigitsValue(digits) * Pow10(shift)
  ELSE IF 0 - shift > Len(digits) THEN 0
  ELSE DigitsValue(digits) \div Pow10(0 - shift)

\* the digits before and after the "." of a mantissa
WholeDigits(m) == IF DotIndex(m) = 0 THEN m ELSE SubSeq(m, 1, DotIndex(m) - 1)

FractionDigits(m) == IF DotIndex(m) = 0 THEN <<>> ELSE SubSeq(m, DotIndex(m) + 1, Len(m))

\* the value of an exponent, 0 without one
ExponentValue(x) ==
  IF x = <<>> THEN 0
  ELSE IF Head(x) = "-" THEN 0 - DigitsValue(Tail(x))
  ELSE DigitsValue(Unsigned(x))

\* the integer part of an unsigned number
Magnitude(u) ==
  Scaled(WholeDigits(MantissaOf(u)) \o FractionDigits(MantissaOf(u)),
         ExponentValue(ExponentOf(u)) - Len(FractionDigits(MantissaOf(u))))

\* pd.to_numeric(errors="coerce").fillna(0).astype(int) on one cell with a
\* finite value: text that is no number becomes 0, a fraction is cut off
\* towards zero.  On an infinite value astype(int) raises: see AstypeRaises.
ToInt(v) ==
  IF ~IsNumber(v) THEN 0
  ELSE IF Head(StripSpace(v)) = "-"
       THEN 0 - Magnitude(Unsigned(StripSpace(v)))
       ELSE Magnitude(Unsigned(StripSpace(v)))

\* astype(int) raises IntCastingNaNError: a medal cell of the frame holds an
\* infinite value, which fillna(0) leaves in place
AstypeRaises(medals_df) ==
  \E i \in 1..Len(medals_df) :
    \/ IsInfinite(medals_df[i].gold)
    \/ IsInfinite(medals_df[i].silver)
    \/ IsInfinite(medals_df[i].bronze)
    \/ IsInfinite(medals_df[i].total)

\* fillna("").astype(str).str.strip() on one cell
CleanCountry(v) == IF IsNa(v) THEN <<>> ELSE StripSpace(v)

\* the row after the noc, country and medal columns were cleaned
CleanTotalsRow(r) ==
  [noc     |-> clean_noc(r.noc),
   country |-> CleanCountry(r.country),
   gold    |-> ToInt(r.gold),
   silver  |-> ToInt(r.silver),
   bronze  |-> ToInt(r.bronze),
   total   |-> ToInt(r.total)]

\* the sort with the total ascending
TotalsSortKey_ascending(r) ==
  <<r.total, 0 - r.gold, 0 - r.silver, 0 - r.bronze>> \o CharCodes(r.country)

\* sort_values(["total", "gold", "silver", "bronze", "country"],
\*             ascending=[False, False, False, False, True])
TotalsSortKey(r) ==
  <<0 - r.total, 0 - r.gold, 0 - r.silver, 0 - r.bronze>> \o CharCodes(r.country)

\* every row is kept, a repeated code included
DropDuplicateNoc_keep_all(rows, seen) == rows

\* drop_duplicates(subset=["noc"], keep="first")
RECURSIVE DropDuplicateNoc(_, _)
DropDuplicateNoc(rows, seen) ==
  IF rows = <<>> THEN <<>>
  ELSE IF Head(rows).noc \in seen THEN DropDuplicateNoc(Tail(rows), seen)
  ELSE <<Head(rows)>> \o DropDuplicateNoc(Tail(rows), seen \cup {Head(rows).noc})

\* normalize_medals_df on a frame that has all six columns (every caller
\* passes a frame; a column the frame lacks would read as "" or 0 in every
\* row) and on which astype(int) does not raise
normalize_medals_df(medals_df) ==
  LET cleaned == [i \in 1..Len(medals_df) |-> CleanTotalsRow(medals_df[i])]
      kept    == SelectSeq(cleaned, LAMBDA r : r.noc # <<>>)
      sorted  == StableSort([i \in 1..Len(kept) |->
                               [key |-> TotalsSortKey(kept[i]), row |-> kept[i]]])
  IN  DropDuplicateNoc([i \in 1..Len(sorted) |-> sorted[i].row], {})

\* a row of an input frame
TotalsRow(noc, country, gold, silver, bronze, total) ==
  [noc |-> noc, country |-> country,
   gold |-> gold, silver |-> silver, bronze |-> bronze, total |-> total]

\* the rows of the input frames
TotalsRecords ==
  { TotalsRow(<<"N","O","R">>, <<"N","o","r","w","a","y">>, <<"2">>, <<"1">>, <<"0">>, <<"3">>),
    TotalsRow(<<"n","o","r"," ">>, <<" ","N","o","r","w","a","y">>, <<"3">>, <<"1">>, <<"1">>, <<"5">>),
    TotalsRow(<<"N","O","R">>, <<"N","o","r","g","e">>, <<"2">>, <<"1">>, <<"0">>, <<"3">>),
    TotalsRow(<<"S","U","I">>, <<"S","w","i","t","z","e","r","l","a","n","d">>, <<"1">>, <<"0">>, <<"0">>, <<"1">>),
    TotalsRow(<<"S","U","I">>, <<"S","w","i","t","z","e","r","l","a","n","d">>, <<"1">>, <<"x">>, <<"NaN">>, <<"2",".","0">>),
    TotalsRow(<<"NaN">>, <<"A","t","l","a","n","t","i","s">>, <<"9">>, <<"9">>, <<"9">>, <<"2","7">>),
    TotalsRow(<<" "," ">>, <<"NaN">>, <<"4">>, <<"0">>, <<"0">>, <<"4">>),
    TotalsRow(<<"I","T","A">>, <<"I","t","a","l","y">>, <<"-","1">>, <<"0">>, <<"2">>, <<"1">>),
    TotalsRow(<<"U","S","A">>, <<"U","n","i","t","e","d"," ","S","t","a","t","e","s">>, <<"1","e","1">>, <<"5",".">>, <<".","5">>, <<"1",".","5","E","1">>),
    TotalsRow(<<"F","I","N">>, <<"F","i","n","l","a","n","d">>, <<"i","n","f">>, <<"0">>, <<"0">>, <<"1">>) }

RECURSIVE TotalsListsUpTo(_)
TotalsListsUpTo(n) ==
  IF n = 0 THEN {<<>>}
  ELSE LET shorter == TotalsListsUpTo(n - 1)
       IN  shorter \cup {Append(l, r) : l \in shorter, r \in TotalsRecords}

TotalsLists == TotalsListsUpTo(MaxTotals)

(***************************************************************************)
(* build_friend_scores of olympic-dash.py.  The points columns are floats  *)
(* that hold whole or half points; the model keeps them in half points.    *)
(***************************************************************************)
MaxFriends == 3

SCORING_WEIGHTS == [gold |-> 3, silver |-> 2, bronze |-> 1]

\* the code whose points are halved
PENALTY_NOC == <<"N","O","R">>

\* n points, in half points
HalfPoints(n) == 2 * n

\* a column of points multiplied by 0.5
Halved(p) == p \div 2

\* friends_df with noc_1 and noc_2 cleaned; index is the row label
CleanFriends(friends_df) ==
  [i \in 1..Len(friends_df) |->
     [index  |-> i - 1,
      friend |-> friends_df[i].friend,
      noc_1  |-> clean_noc(friends_df[i].noc_1),
      noc_2  |-> clean_noc(friends_df[i].noc_2)]]

\* the rows of the totals whose noc equals the key of the left row
MatchingTotals(medals, noc) == SelectSeq(medals, LAMBDA m : m.noc = noc)

\* the columns a left merge on noc_1 adds; without a match they are NaN,
\* which fillna(0) turns into 0
Side1(m) ==
  [gold_1 |-> m.gold, silver_1 |-> m.silver, bronze_1 |-> m.bronze, total_1 |-> m.total]

Side2(m) ==
  [gold_2 |-> m.gold, silver_2 |-> m.silver, bronze_2 |-> m.bronze, total_2 |-> m.total]

NoTotals == [gold |-> 0, silver |-> 0, bronze |-> 0, total |-> 0]

\* merge(medals_1, how="left", on="noc_1"): one output row per matching row
\* of the totals, one row of NaN when nothing matches, in the order of left
RECURSIVE MergeSide1(_, _)
MergeSide1(left, medals) ==
  IF left = <<>> THEN <<>>
  ELSE LET r  == Head(left)
           ms == MatchingTotals(medals, r.noc_1)
       IN  (IF ms = <<>> THEN <<r @@ Side1(NoTotals)>>
            ELSE [j \in 1..Len(ms) |-> r @@ Side1(ms[j])])
           \o MergeSide1(Tail(left), medals)

RECURSIVE MergeSide2(_, _)
MergeSide2(left, medals) ==
  IF left = <<>> THEN <<>>
  ELSE LET r  == Head(left)
           ms == MatchingTotals(medals, r.noc_2)
       IN  (IF ms = <<>> THEN <<r @@ Side2(NoTotals)>>
            ELSE [j \in 1..Len(ms) |-> r @@ Side2(ms[j])])
           \o MergeSide2(Tail(left), medals)

\* the merged frame gets a fresh row label 0, 1, 2, ...
Relabel(rows) == [i \in 1..Len(rows) |-> [rows[i] EXCEPT !.index = i - 1]]

\* gold * 3 + silver * 2 + bronze * 1
WeightedPoints(gold, silver, bronze) ==
  gold * SCORING_WEIGHTS.gold + silver * SCORING_WEIGHTS.silver
  + bronze * SCORING_WEIGHTS.bronze

\* the points with every medal counted once
BasePoints_unweighted(r) ==
  r @@ [points_1 |-> HalfPoints(r.gold_1 + r.silver_1 + r.bronze_1),
        points_2 |-> HalfPoints(r.gold_2 + r.silver_2 + r.bronze_2)]

\* points_1 and points_2 before the penalty
BasePoints(r) ==
  r @@ [points_1 |-> HalfPoints(WeightedPoints(r.gold_1, r.silver_1, r.bronze_1)),
        points_2 |-> HalfPoints(WeightedPoints(r.gold_2, r.silver_2, r.bronze_2))]

\* the frame up to the base points: both merges on the normalised totals
MergedFrame(friends_df, medals_df) ==
  LET medals == normalize_medals_df(medals_df)
      merged == Relabel(MergeSide2(MergeSide1(CleanFriends(friends_df), medals), medals))
  IN  [i \in 1..Len(merged) |-> BasePoints(merged[i])]

\* the penalty applied to the first side only
ApplyPenalty_side1(r) ==
  [r EXCEPT !.points_1 = IF r.noc_1 = PENALTY_NOC THEN Halved(@) ELSE @]

\* merged.loc[merged["noc_1"] == "NOR", "points_1"] *= 0.5, and the same for
\* the second side
ApplyPenalty(r) ==
  [r EXCEPT !.points_1 = IF r.noc_1 = PENALTY_NOC THEN Halved(@) ELSE @,
            !.points_2 = IF r.noc_2 = PENALTY_NOC THEN Halved(@) ELSE @]

\* the bonus without the penalty
get_dd_points_unhalved(noc, dd) ==
  IF noc \in DOMAIN dd
  THEN HalfPoints(WeightedPoints(dd[noc].gold, dd[noc].silver, dd[noc].bronze))
  ELSE 0

\* get_dd_points: dd is double_df indexed by noc
get_dd_points(noc, dd) ==
  IF noc \in DOMAIN dd
  THEN LET points == HalfPoints(WeightedPoints(dd[noc].gold, dd[noc].silver,
                                               dd[noc].bronze))
       IN  IF noc = PENALTY_NOC THEN Halved(points) ELSE points
  ELSE 0

\* the column daily_double; 0 when double_df is empty
DailyDouble(r, double_df) ==
  r @@ [daily_double |->
          IF DOMAIN double_df # {}
          THEN get_dd_points(r.noc_1, double_df) + get_dd_points(r.noc_2, double_df)
          ELSE 0]

\* the columns points_total and total_medals
Totals(r) ==
  r @@ [points_total |-> r.points_1 + r.points_2 + r.daily_double,
        total_medals |-> r.total_1 + r.total_2]

\* the sort on the points alone
ScoreSortKey_points(r) == <<0 - r.points_total>>

\* sort_values(["points_total", "total_medals"], ascending=False)
ScoreSortKey(r) == <<0 - r.points_total, 0 - r.total_medals>>

SortScores(rows) ==
  LET sorted == StableSort([i \in 1..Len(rows) |->
                              [key |-> ScoreSortKey(rows[i]), row |-> rows[i]]])
  IN  [i \in 1..Len(sorted) |-> sorted[i].row]

\* the penalty on every row
PenaltyColumn(rows) == [i \in 1..Len(rows) |-> ApplyPenalty(rows[i])]

\* the column daily_double on every row
DailyDoubleColumn(rows, double_df) ==
  [i \in 1..Len(rows) |-> DailyDouble(rows[i], double_df)]

\* points_total and total_medals on every row, then the sort
TotalsAndSort(rows) == SortScores([i \in 1..Len(rows) |-> Totals(rows[i])])

\* build_friend_scores
build_friend_scores(friends_df, medals_df, double_df) ==
  TotalsAndSort(
    DailyDoubleColumn(PenaltyColumn(MergedFrame(friends_df, medals_df)), double_df))

\* a row of friends.csv as load_friends returns it
Friend(friend, noc_1, noc_2) == [friend |-> friend, noc_1 |-> noc_1, noc_2 |-> noc_2]

\* the roster entries
FriendRecords ==
  { Friend(<<"A","d","a">>, <<"N","O","R">>, <<>>),
    Friend(<<"B","o">>, <<"S","U","I">>, <<"N","O","R">>),
    Friend(<<"C","y">>, <<"U","S","A">>, <<"S","U","I">>),
    Friend(<<"D","i">>, <<" ","n","o","r">>, <<"NaN">>),
    Friend(<<"E","d">>, <<"F","I","N">>, <<>>),
    Friend(<<"F","l","o">>, <<"S","U","I">>, <<>>) }

RECURSIVE FriendListsUpTo(_)
FriendListsUpTo(n) ==
  IF n = 0 THEN {<<>>}
  ELSE LET shorter == FriendListsUpTo(n - 1)
       IN  shorter \cup {Append(l, r) : l \in shorter, r \in FriendRecords}

FriendLists == FriendListsUpTo(MaxFriends)

\* the totals frames the scoring is run with
ScoreTotals ==
  { <<>>,
    <<TotalsRow(<<"N","O","R">>, <<"N","o","r","w","a","y">>, <<"2">>, <<"1">>, <<"0">>, <<"3">>),
      TotalsRow(<<"S","U","I">>, <<"S","w","i","t","z","e","r","l","a","n","d">>, <<"2">>, <<"1">>, <<"0">>, <<"3">>),
      TotalsRow(<<"U","S","A">>, <<"U","n","i","t","e","d"," ","S","t","a","t","e","s">>, <<"0">>, <<"1">>, <<"0">>, <<"1">>)>>,
    <<TotalsRow(<<"S","U","I">>, <<"S","w","i","t","z","e","r","l","a","n","d">>, <<"1">>, <<"0">>, <<"0">>, <<"1">>),
      TotalsRow(<<"N","O","R">>, <<"N","o","r","w","a","y">>, <<"1">>, <<"0">>, <<"0">>, <<"1">>),
      TotalsRow(<<"N","O","R">>, <<"N","o","r","w","a","y">>, <<"2">>, <<"0">>, <<"0">>, <<"2">>),
      TotalsRow(<<>>, <<"N","o","w","h","e","r","e">>, <<"5">>, <<"0">>, <<"0">>, <<"5">>)>>,
    <<TotalsRow(<<"N","O","R">>, <<"N","o","r","w","a","y">>, <<"1">>, <<"0">>, <<"0">>, <<"1">>)>> }

\* the bonus frames the scoring is run with
ScoreDoubles ==
  { <<>>,
    (<<"N","O","R">> :> [gold |-> 1, silver |-> 0, bronze |-> 0]),
    (<<"S","U","I">> :> [gold |-> 1, silver |-> 0, bronze |-> 0])
      @@ (<<"N","O","R">> :> [gold |-> 0, silver |-> 1, bronze |-> 1]) }

(***************************************************************************)
(* fetch_medals, load_medals_cache and load_friends of olympic-dash.py.    *)
(* A response is the outcome of requests.get and raise_for_status and the  *)
(* tables pd.read_html finds in the page.                                  *)
(***************************************************************************)
\* COUNTRY_TO_NOC of olympic-dash.py, in the order of the dict
DASH_COUNTRY_TO_NOC ==
  <<
     [name |-> <<"N","o","r","w","a","y">>, noc |-> <<"N","O","R">>],
     [name |-> <<"U","n","i","t","e","d"," ","S","t","a","t","e","s">>, noc |-> <<"U","S","A">>],
     [name |-> <<"I","t","a","l","y">>, noc |-> <<"I","T","A">>],
     [name |-> <<"J","a","p","a","n">>, noc |-> <<"J","P","N">>],
     [name |-> <<"A","u","s","t","r","i","a">>, noc |-> <<"A","U","T">>],
     [name |-> <<"G","e","r","m","a","n","y">>, noc |-> <<"G","E","R">>],
     [name |-> <<"C","z","e","c","h"," ","R","e","p","u","b","l","i","c">>, noc |-> <<"C","Z","E">>],
     [name |-> <<"F","r","a","n","c","e">>, noc |-> <<"F","R","A">>],
     [name |-> <<"S","w","e","d","e","n">>, noc |-> <<"S","W","E">>],
     [name |-> <<"S","w","i","t","z","e","r","l","a","n","d">>, noc |-> <<"S","U","I">>],
     [name |-> <<"C","a","n","a","d","a">>, noc |-> <<"C","A","N">>],
     [name |-> <<"N","e","t","h","e","r","l","a","n","d","s">>, noc |-> <<"N","E","D">>],
     [name |-> <<"C","h","i","n","a">>, noc |-> <<"C","H","N">>],
     [name |-> <<"P","o","l","a","n","d">>, noc |-> <<"P","O","L">>],
     [name |-> <<"K","o","r","e","a">>, noc |-> <<"K","O","R">>],
     [name |-> <<"S","o","u","t","h"," ","K","o","r","e","a">>, noc |-> <<"K","O","R">>],
     [name |-> <<"F","i","n","l","a","n","d">>, noc |-> <<"F","I","N">>],
     [name |-> <<"S","l","o","v","a","k","i","a">>, noc |-> <<"S","V","K">>],
     [name |-> <<"B","e","l","g","i","u","m">>, noc |-> <<"B","E","L">>],
     [name |-> <<"H","u","n","g","a","r","y">>, noc |-> <<"H","U","N">>],
     [name |-> <<"N","e","w"," ","Z","e","a","l","a","n","d">>, noc |-> <<"N","Z","L">>],
     [name |-> <<"A","u","s","t","r","a","l","i","a">>, noc |-> <<"A","U","S">>],
     [name |-> <<"S","l","o","v","e","n","i","a">>, noc |-> <<"S","L","O">>],
     [name |-> <<"B","u","l","g","a","r","i","a">>, noc |-> <<"B","U","L">>],
     [name |-> <<"G","r","e","a","t"," ","B","r","i","t","a","i","n">>, noc |-> <<"G","B","R">>],
     [name |-> <<"R","u","s","s","i","a">>, noc |-> <<"R","U","S">>]>>

\* Series.map(COUNTRY_TO_NOC): NaN for a name the dict lacks
MapCountryToNoc(country) ==
  IF \E i \in 1..Len(DASH_COUNTRY_TO_NOC) : DASH_COUNTRY_TO_NOC[i].name = country
  THEN DASH_COUNTRY_TO_NOC[CHOOSE i \in 1..Len(DASH_COUNTRY_TO_NOC) :
                             DASH_COUNTRY_TO_NOC[i].name = country].noc
  ELSE <<"NaN">>

\* [str(c).lower() for c in table.columns]
LowerColumnList(table) == [i \in 1..Len(table.columns) |-> StrLower(table.columns[i])]

\* position of the first column with that label, 0 when there is none
ColumnIndex(columns, label) ==
  IF \E i \in 1..Len(columns) : columns[i] = label
  THEN CHOOSE i \in 1..Len(columns) :
         columns[i] = label /\ \A j \in 1..(i - 1) : columns[j] # label
  ELSE 0

\* "gold", "silver" and "bronze" are all among the lower-cased columns
HasTotalsHeaders(table) ==
  \A label \in { <<"g","o","l","d">>, <<"s","i","l","v","e","r">>, <<"b","r","o","n","z","e">> } :
    ColumnIndex(LowerColumnList(table), label) # 0

\* position of the first table with those headers, 0 when medal_table stays None
MedalTableIndex(tables) ==
  IF \E i \in 1..Len(tables) : HasTotalsHeaders(tables[i])
  THEN CHOOSE i \in 1..Len(tables) :
         HasTotalsHeaders(tables[i]) /\ \A j \in 1..(i - 1) : ~HasTotalsHeaders(tables[j])
  ELSE 0

\* position of the first lower-cased column with "noc" in it, 0 when
\* country_col stays None
CountryColumn(columns) ==
  IF \E i \in 1..Len(columns) : Contains(columns[i], <<"n","o","c">>)
  THEN CHOOSE i \in 1..Len(columns) :
         /\ Contains(columns[i], <<"n","o","c">>)
         /\ \A j \in 1..(i - 1) : ~Contains(columns[j], <<"n","o","c">>)
  ELSE 0

\* the rows whose first cell does not contain "total", whatever its case
WithoutTotalsRow(rows) ==
  SelectSeq(rows, LAMBDA row : ~Contains(StrLower(row[1]), <<"t","o","t","a","l">>))

\* str.replace(r"\*+", "", regex=True).str.strip()
CountryName(text) == StripSpace(SelectSeq(text, LAMBDA c : c # "*"))

\* the frame handed to normalize_medals_df
TotalsFrame(columns, rows) ==
  [i \in 1..Len(rows) |->
     LET country == CountryName(rows[i][CountryColumn(columns)])
     IN  [noc     |-> MapCountryToNoc(country),
          country |-> country,
          gold    |-> rows[i][ColumnIndex(columns, <<"g","o","l","d">>)],
          silver  |-> rows[i][ColumnIndex(columns, <<"s","i","l","v","e","r">>)],
          bronze  |-> rows[i][ColumnIndex(columns, <<"b","r","o","n","z","e">>)],
          total   |-> rows[i][ColumnIndex(columns, <<"t","o","t","a","l">>)]]]

\* fetch_medals up to the write of the cache: the exception it raises, "" when
\* it returns, and the frame it returns
fetch_medals(response) ==
  IF ~response.ok THEN [raised |-> "RequestException", medals_df |-> <<>>]
  ELSE IF MedalTableIndex(response.tables) = 0
       THEN [raised |-> "ValueError", medals_df |-> <<>>]
  ELSE LET medal_table == response.tables[MedalTableIndex(response.tables)]
           columns     == LowerColumnList(medal_table)
           rows        == WithoutTotalsRow(medal_table.rows)
       IN  IF CountryColumn(columns) = 0
           THEN [raised |-> "ValueError", medals_df |-> <<>>]
           ELSE IF ColumnIndex(columns, <<"t","o","t","a","l">>) = 0
           THEN [raised |-> "KeyError", medals_df |-> <<>>]
           ELSE IF AstypeRaises(TotalsFrame(columns, rows))
           THEN [raised |-> "IntCastingNaNError", medals_df |-> <<>>]
           ELSE [raised |-> "",
                 medals_df |-> normalize_medals_df(TotalsFrame(columns, rows))]

\* str(n) for an integer
RECURSIVE NatText(_)
NatText(n) ==
  IF n < 10 THEN <<DigitChars[n + 1]>>
  ELSE NatText(n \div 10) \o <<DigitChars[(n % 10) + 1]>>

IntText(n) == IF n < 0 THEN <<"-">> \o NatText(0 - n) ELSE NatText(n)

\* a text cell as read_csv reads it: an empty field is NaN
CsvCell(text) == IF text = <<>> THEN <<"NaN">> ELSE text

\* a normalised frame with its cells as text: what to_csv writes and read_csv
\* reads back, and the form in which normalize_medals_df takes its input
FrameText(medals_df) ==
  [i \in 1..Len(medals_df) |->
     [noc     |-> CsvCell(medals_df[i].noc),
      country |-> CsvCell(medals_df[i].country),
      gold    |-> IntText(medals_df[i].gold),
      silver  |-> IntText(medals_df[i].silver),
      bronze  |-> IntText(medals_df[i].bronze),
      total   |-> IntText(medals_df[i].total)]]

\* MEDALS_CACHE_FILE does not exist
NoFile == [exists |-> FALSE, rows |-> <<>>]

\* load_medals_cache when the file exists
load_medals_cache(file) == normalize_medals_df(file.rows)

\* the file has a noc column and no noc_1 column: the legacy form
LegacyFriends(file) == "noc" \in file.columns /\ "noc_1" \notin file.columns

\* the columns of friends_df before the test of the required columns: noc and
\* country renamed and noc_2 and country_2 added for the legacy form,
\* country_1 and country_2 added where they lack
FriendColumns(file) ==
  (IF LegacyFriends(file)
   THEN (file.columns \ {"noc", "country"})
          \cup {"noc_1", "noc_2"}
          \cup (IF "country" \in file.columns THEN {"country_1"} ELSE {})
   ELSE file.columns) \cup {"country_1", "country_2"}

\* required_columns - set(friends_df.columns)
MissingFriendColumns(file) == {"friend", "noc_1", "noc_2"} \ FriendColumns(file)

\* load_friends raises the ValueError
LoadFriendsRaises(file) == MissingFriendColumns(file) # {}

\* load_friends on a file that has the required columns
load_friends(file) ==
  SelectSeq([i \in 1..Len(file.rows) |->
               [friend |-> CleanCountry(file.rows[i].friend),
                noc_1  |-> clean_noc(IF LegacyFriends(file) THEN file.rows[i].noc
                                     ELSE file.rows[i].noc_1),
                noc_2  |-> clean_noc(IF LegacyFriends(file) THEN <<>>
                                     ELSE file.rows[i].noc_2)]],
            LAMBDA r : r.friend # <<>>)

\* one iteration of the row loop of fetch_medal_events
GroupStep(row, acc) ==
  IF NoNoc(row.noc) THEN acc
  ELSE LET noc        == row.noc
           event_data == EventData(row)
           started    ==
             IF noc \in DOMAIN acc.events_by_noc THEN acc
             ELSE [events_by_noc |-> acc.events_by_noc @@ (noc :> <<>>),
                   seen_by_noc   |-> acc.seen_by_noc @@ (noc :> {})]
       IN  IF GroupKey(event_data) \in started.seen_by_noc[noc] THEN started
           ELSE [events_by_noc |->
                   [started.events_by_noc EXCEPT ![noc] = Append(@, event_data)],
                 seen_by_noc |->
                   [started.seen_by_noc EXCEPT ![noc] = @ \cup {GroupKey(event_data)}]]

RECURSIVE GroupLoop(_, _, _)
GroupLoop(winner_rows_in, k, acc) ==
  IF k > Len(winner_rows_in) THEN acc
  ELSE GroupLoop(winner_rows_in, k + 1, GroupStep(winner_rows_in[k], acc))

\* fetch_medal_events on a list of winner rows
fetch_medal_events(winner_rows_in) ==
  GroupLoop(winner_rows_in, 1, [events_by_noc |-> <<>>, seen_by_noc |-> <<>>]).events_by_noc

\* the medal table of the page as Wikipedia lays it out
WikiMedalTable ==
  [columns |-> <<<<"R","a","n","k">>, <<"N","O","C">>, <<"G","o","l","d">>, <<"S","i","l","v","e","r">>, <<"B","r","o","n","z","e">>, <<"T","o","t","a","l">>>>,
   rows |-> <<<<<<"1">>, <<"N","o","r","w","a","y">>, <<"2">>, <<"1">>, <<"0">>, <<"3">>>>,
             <<<<"2">>, <<"I","t","a","l","y","*">>, <<"1">>, <<"0">>, <<"1">>, <<"2">>>>,
             <<<<"3">>, <<"S","w","i","t","z","e","r","l","a","n","d">>, <<"1">>, <<"0">>, <<"0">>, <<"1">>>>,
             <<<<"4">>, <<"L","i","e","c","h","t","e","n","s","t","e","i","n">>, <<"0">>, <<"1">>, <<"0">>, <<"1">>>>,
             <<<<"T","o","t","a","l","s"," ","(","4"," ","e","n","t","r","i","e","s",")">>, <<"4">>, <<"4">>, <<"2">>, <<"1">>, <<"7">>>>>>]

\* the same table one day earlier
WikiEarlyTable ==
  [columns |-> <<<<"R","a","n","k">>, <<"N","O","C">>, <<"G","o","l","d">>, <<"S","i","l","v","e","r">>, <<"B","r","o","n","z","e">>, <<"T","o","t","a","l">>>>,
   rows |-> <<<<<<"1">>, <<"S","w","i","t","z","e","r","l","a","n","d">>, <<"1">>, <<"0">>, <<"0">>, <<"1">>>>,
             <<<<"T","o","t","a","l","s"," ","(","1"," ","e","n","t","r","i","e","s",")">>, <<"1">>, <<"1">>, <<"0">>, <<"0">>, <<"1">>>>>>]

\* a medal table that names its country column "Nation"
NationTable ==
  [columns |-> <<<<"R","a","n","k">>, <<"N","a","t","i","o","n">>, <<"G","o","l","d">>, <<"S","i","l","v","e","r">>, <<"B","r","o","n","z","e">>, <<"T","o","t","a","l">>>>,
   rows |-> <<<<<<"1">>, <<"N","o","r","w","a","y">>, <<"2">>, <<"1">>, <<"0">>, <<"3">>>>>>]

\* a medal table with a cell that reads as an infinite value
InfiniteTable ==
  [columns |-> <<<<"R","a","n","k">>, <<"N","O","C">>, <<"G","o","l","d">>, <<"S","i","l","v","e","r">>, <<"B","r","o","n","z","e">>, <<"T","o","t","a","l">>>>,
   rows |-> <<<<<<"1">>, <<"N","o","r","w","a","y">>, <<"i","n","f">>, <<"1">>, <<"0">>, <<"3">>>>>>]

\* a table of the page without medal columns
InfoTable ==
  [columns |-> <<<<"L","o","c","a","t","i","o","n">>, <<"D","a","t","e","s">>>>,
   rows |-> <<<<<<"M","i","l","a","n">>, <<"6"," ","F","e","b","r","u","a","r","y">>>>>>]

\* the request failed: timeout, connection error or HTTP error status
RequestFailed == [ok |-> FALSE, tables |-> <<>>]

Page(tables) == [ok |-> TRUE, tables |-> tables]

\* what the request for WIKI_MEDAL_URL may give
WikiResponses ==
  { RequestFailed,
    Page(<<InfoTable, WikiMedalTable>>),
    Page(<<WikiEarlyTable>>),
    Page(<<InfoTable>>),
    Page(<<InfoTable, NationTable>>),
    Page(<<InfiniteTable>>) }

\* what MEDALS_CACHE_FILE may hold when the run starts
CacheFiles ==
  { NoFile,
    [exists |-> TRUE,
     rows |-> <<TotalsRow(<<"N","O","R">>, <<"N","o","r","w","a","y">>, <<"1">>, <<"0">>, <<"0">>, <<"1">>)>>] }

\* friends.csv with the given columns and rows
FriendsFile(columns, rows) == [columns |-> columns, rows |-> rows]

\* a row of a file that names the roster column "name"
NamedFriend(name, noc_1, noc_2) == [name |-> name, noc_1 |-> noc_1, noc_2 |-> noc_2]

\* a row of a file in the legacy form
LegacyFriend(friend, noc) == [friend |-> friend, noc |-> noc]

\* what friends.csv may hold: two files with the three columns, a file
\* without the friend column and a file in the legacy form
FriendFiles ==
  { FriendsFile({"friend", "noc_1", "noc_2"},
                <<Friend(<<"A","d","a">>, <<"N","O","R">>, <<"NaN">>), Friend(<<"B","o">>, <<"k","o","r">>, <<"I","T","A">>)>>),
    FriendsFile({"friend", "noc_1", "noc_2"},
                <<Friend(<<" ","C","y"," ">>, <<"S","U","I">>, <<"N","O","R">>), Friend(<<" ">>, <<"U","S","A">>, <<"NaN">>)>>),
    FriendsFile({"name", "noc_1", "noc_2"},
                <<NamedFriend(<<"A","d","a">>, <<"N","O","R">>, <<"NaN">>)>>),
    FriendsFile({"friend", "noc"},
                <<LegacyFriend(<<"A","d","a">>, <<"n","o","r"," ">>), LegacyFriend(<<"NaN">>, <<"S","U","I">>)>>) }

\* what the request for MEDAL_WINNERS_URL may give
EventResponses ==
  { RequestFailed,
    Page(<<StandingsTable, NoGoldTable, SwissGoldTable>>),
    Page(<<StandingsTable, NoGoldTable, FootnotedEventTable>>),
    Page(<<StandingsTable, RepeatedRowsTable, RepeatedRowsTable>>),
    Page(<<StandingsTable>>) }

\* cells on which the model also replays an edited copy
MaxEditParts == 2

EditCells ==
  Concats(MaxEditParts) \cup QuotedCells

\* bracketed annotations and whitespace characters inserted by the edits
Markers == { <<"[","1","]">>, <<"[","n"," ","2","]">> }

SpaceChars == {" ", "\t"}

\* the texts handed to normalize_text and canonical_text
MaxTextParts == 3

TextTokens ==
  { <<"S","l","a","l","o","m">>, <<"G">>, <<" ">>, <<" ","\t"," ">>, <<"-">>, <<"2">> }

RECURSIVE TextsUpTo(_)
TextsUpTo(n) ==
  IF n = 0 THEN {<<>>}
  ELSE LET shorter == TextsUpTo(n - 1)
       IN  shorter \cup {t \o k : t \in shorter, k \in TextTokens}

Texts == TextsUpTo(MaxTextParts)

VARIABLES
  text_in,     \* the text before a footnote marker was inserted
  text_marked, \* the text handed to normalize_text and canonical_text
  text_once,   \* what the two functions return for it
  text_twice,  \* what they return for their own results
  text_pc,     \* "idle", "input", "once" or "twice"
  cell,        \* the cell text handed to extract_athlete_and_country
  split,       \* its result
  base,        \* the cell before it was edited
  baseSplit,   \* the result for base
  edit,        \* the edit that led from base to cell
  tables,      \* the tables read from the page
  table_idx,   \* 0-based index of the table the loop is at
  row_idx,     \* number of rows of that table already iterated
  pc,          \* "idle", "run" or "done"
  winner_rows, \* the list the function builds
  seen_rows,   \* the dedupe keys already recorded
  group_in,    \* the winner rows handed to fetch_medal_events
  group_pos,   \* number of them already iterated
  group_pc,    \* "idle", "run" or "done"
  events_by_noc, \* country code -> list of event entries
  seen_by_noc, \* country code -> dedupe keys already recorded
  dd_row,      \* the row handed to matches_daily_double
  dd_config,   \* the descriptor it is tested against
  dd_result,   \* "idle", "pending", or the returned "True" or "False"
  double_events, \* DAILY_DOUBLE_EVENTS as fetch_daily_doubles reads it
  double_in,   \* the winner rows handed to fetch_daily_doubles
  double_out,  \* the frame and the results it returns
  double_pc,   \* "idle", "run" or "done"
  norm_in,     \* the frame handed to normalize_medals_df
  norm_out,    \* the frame it returns
  norm_pc,     \* "idle", "run" or "done"
  score_friends, \* the arguments of build_friend_scores
  score_medals,
  score_double,
  merged,      \* its frame merged
  score_pc,    \* "idle", "merge", "penalty", "bonus", "total" or "done"
  wiki_response,   \* what WIKI_MEDAL_URL answers during the run
  events_response, \* what MEDAL_WINNERS_URL answers during the run
  friends_file,    \* the rows of friends.csv
  cache_file,      \* MEDALS_CACHE_FILE
  cache_reads,     \* number of times the cache file was read
  cache_writes,    \* number of times it was written
  main_pc,     \* the statement of __main__ reached, "done" or "fatal"
  raised,      \* the exception that ended the run, "" when none did
  medals_df,   \* the variables of __main__
  friends_df,
  main_winner_rows,
  double_df,
  double_results,
  scored_df,
  EVENT_DATA,
  output_written \* OUTPUT_FILE was written

splitVars == <<cell, split, base, baseSplit, edit>>

extractVars == <<tables, table_idx, row_idx, pc, winner_rows, seen_rows>>

groupVars == <<group_in, group_pos, group_pc, events_by_noc, seen_by_noc>>

matchVars == <<dd_row, dd_config, dd_result>>

doublesVars == <<double_events, double_in, double_out, double_pc>>

normVars == <<norm_in, norm_out, norm_pc>>

scoreVars == <<score_friends, score_medals, score_double, merged, score_pc>>

mainVars ==
  <<wiki_response, events_response, friends_file, cache_file, cache_reads,
    cache_writes, main_pc, raised, medals_df, friends_df, main_winner_rows,
    double_df, double_results, scored_df, EVENT_DATA, output_written>>

textVars == <<text_in, text_marked, text_once, text_twice, text_pc>>

pipelineVars == <<doublesVars, normVars, scoreVars, mainVars, textVars>>

vars == <<splitVars, extractVars, groupVars, matchVars, pipelineVars>>

notSplitVars == <<extractVars, groupVars, matchVars, pipelineVars>>

notExtractVars == <<splitVars, groupVars, matchVars, pipelineVars>>

notGroupVars == <<splitVars, extractVars, matchVars, pipelineVars>>

notMatchVars == <<splitVars, extractVars, groupVars, pipelineVars>>

notDoublesVars ==
  <<splitVars, extractVars, groupVars, matchVars, normVars, scoreVars, mainVars,
    textVars>>

notNormVars ==
  <<splitVars, extractVars, groupVars, matchVars, doublesVars, scoreVars, mainVars,
    textVars>>

notScoreVars ==
  <<splitVars, extractVars, groupVars, matchVars, doublesVars, normVars, mainVars,
    textVars>>

\* what a step of __main__ outside the calls of the two event fetchers leaves
notMainVars ==
  <<splitVars, extractVars, groupVars, matchVars, doublesVars, normVars, scoreVars,
    textVars>>

notTextVars ==
  <<splitVars, extractVars, groupVars, matchVars, doublesVars, normVars, scoreVars,
    mainVars>>

\* split result not computed yet
Pending == [athlete |-> <<"Pending">>, noc |-> <<"Pending">>]

NoEdit == [kind |-> "none", pos |-> 0]

\* position p lies at an end of s or next to a whitespace character of s
AtWhitespaceRun(s, p) ==
  IF p = 0 \/ p = Len(s) THEN TRUE
  ELSE IsSpace(s[p]) \/ IsSpace(s[p + 1])

InsertAt(s, p, t) == SubSeq(s, 1, p) \o t \o SubSeq(s, p + 1, Len(s))

\* the extractor is not running
ExtractIdle ==
  /\ tables = <<>>
  /\ table_idx = 0
  /\ row_idx = 0
  /\ pc = "idle"
  /\ winner_rows = <<>>
  /\ seen_rows = {}

\* no cell is being split
SplitIdle ==
  /\ cell = <<>>
  /\ split = Pending
  /\ base = <<>>
  /\ baseSplit = Pending
  /\ edit = NoEdit

\* fetch_medal_events is not running
GroupIdle ==
  /\ group_in = <<>>
  /\ group_pos = 0
  /\ group_pc = "idle"
  /\ events_by_noc = <<>>
  /\ seen_by_noc = <<>>

\* no row is being matched
MatchIdle ==
  /\ dd_row = [sport |-> <<>>, gender |-> <<>>, event |-> <<>>]
  /\ dd_config = EmptyConfig
  /\ dd_result = "idle"

\* fetch_daily_doubles is not running
DoublesIdle ==
  /\ double_events = <<>>
  /\ double_in = <<>>
  /\ double_out = <<>>
  /\ double_pc = "idle"

\* normalize_medals_df is not running
NormIdle ==
  /\ norm_in = <<>>
  /\ norm_out = <<>>
  /\ norm_pc = "idle"

\* build_friend_scores is not running
ScoreIdle ==
  /\ score_friends = <<>>
  /\ score_medals = <<>>
  /\ score_double = <<>>
  /\ merged = <<>>
  /\ score_pc = "idle"

\* the variables of __main__ before it assigns them
MainUnassigned ==
  /\ cache_reads = 0
  /\ cache_writes = 0
  /\ raised = ""
  /\ medals_df = <<>>
  /\ friends_df = <<>>
  /\ main_winner_rows = <<>>
  /\ double_df = <<>>
  /\ double_results = <<>>
  /\ scored_df = <<>>
  /\ EVENT_DATA = <<>>
  /\ output_written = FALSE

\* the script is not running
MainIdle ==
  /\ wiki_response = RequestFailed
  /\ events_response = RequestFailed
  /\ friends_file = FriendsFile({}, <<>>)
  /\ cache_file = NoFile
  /\ main_pc = "idle"
  /\ MainUnassigned

\* the text functions are not running
TextIdle ==
  /\ text_in = <<>>
  /\ text_marked = <<>>
  /\ text_once = <<>>
  /\ text_twice = <<>>
  /\ text_pc = "idle"

PipelineIdle == DoublesIdle /\ NormIdle /\ ScoreIdle /\ MainIdle /\ TextIdle

SplitInit ==
  /\ cell \in Cells
  /\ split = Pending
  /\ base = <<>>
  /\ baseSplit = Pending
  /\ edit = NoEdit
  /\ ExtractIdle
  /\ GroupIdle
  /\ MatchIdle
  /\ PipelineIdle

\* one call of extract_athlete_and_country on the current cell
Split ==
  /\ split = Pending
  /\ split' = extract_athlete_and_country(cell)
  /\ UNCHANGED <<cell, base, baseSplit, edit>>
  /\ UNCHANGED notSplitVars

\* the source page gains a footnote marker after the first p characters of
\* the cell; the cell is then split again
InsertMarker ==
  /\ split # Pending
  /\ edit = NoEdit
  /\ cell \in EditCells
  /\ \E p \in 0..Len(cell), m \in Markers :
       /\ cell' = InsertAt(cell, p, m)
       /\ edit' = [kind |-> "marker", pos |-> p]
  /\ base' = cell
  /\ baseSplit' = split
  /\ split' = Pending
  /\ UNCHANGED notSplitVars

\* a whitespace run of the cell gets one more whitespace character, or the
\* cell is padded at one end; the cell is then split again
InsertSpace ==
  /\ split # Pending
  /\ edit = NoEdit
  /\ cell \in EditCells
  /\ \E p \in 0..Len(cell), w \in SpaceChars :
       /\ AtWhitespaceRun(cell, p)
       /\ cell' = InsertAt(cell, p, <<w>>)
       /\ edit' = [kind |-> "space", pos |-> p]
  /\ base' = cell
  /\ baseSplit' = split
  /\ split' = Pending
  /\ UNCHANGED notSplitVars

SplitNext == Split \/ InsertMarker \/ InsertSpace

SpecSplit == SplitInit /\ [][SplitNext]_vars

(***************************************************************************)
(* The loops of fetch_medal_winner_rows, one step per table or row.        *)
(***************************************************************************)
ExtractInit ==
  /\ tables \in Pages
  /\ table_idx = 0
  /\ row_idx = 0
  /\ pc = "run"
  /\ winner_rows = <<>>
  /\ seen_rows = {}
  /\ SplitIdle
  /\ GroupIdle
  /\ MatchIdle
  /\ PipelineIdle

\* the loop is at a table of the page
AtTable == pc = "run" /\ table_idx < Len(tables)

CurrentTable == tables[table_idx + 1]

\* the table passed both tests and its rows are iterated
TableAccepted(idx) ==
  /\ HasMedalHeaders(tables[idx + 1])
  /\ idx \in TABLE_TO_SPORT_KEYS

AtRow == AtTable /\ TableAccepted(table_idx) /\ row_idx < Len(CurrentTable.rows)

CurrentRow == CurrentTable.rows[row_idx + 1]

\* 'event' or 'gold' is not among the lower-cased columns: continue
SkipTableWithoutHeaders ==
  /\ AtTable
  /\ ~HasMedalHeaders(CurrentTable)
  /\ table_idx' = table_idx + 1
  /\ UNCHANGED <<tables, row_idx, pc, winner_rows, seen_rows>>
  /\ UNCHANGED notExtractVars

\* TABLE_TO_SPORT has no entry for the index: continue
SkipTableWithoutSport ==
  /\ AtTable
  /\ HasMedalHeaders(CurrentTable)
  /\ table_idx \notin TABLE_TO_SPORT_KEYS
  /\ table_idx' = table_idx + 1
  /\ UNCHANGED <<tables, row_idx, pc, winner_rows, seen_rows>>
  /\ UNCHANGED notExtractVars

\* the event cell is blank, empty after cleaning or the header text: continue
SkipRow ==
  /\ AtRow
  /\ RowSkipped(CurrentTable, CurrentRow)
  /\ row_idx' = row_idx + 1
  /\ UNCHANGED <<tables, table_idx, pc, winner_rows, seen_rows>>
  /\ UNCHANGED notExtractVars

\* one iteration of the row loop that reaches the medal loop
ProcessRow ==
  /\ AtRow
  /\ ~RowSkipped(CurrentTable, CurrentRow)
  /\ LET acc == MedalLoop(CurrentTable, CurrentRow, TABLE_TO_SPORT(table_idx), 1,
                          [winner_rows |-> winner_rows, seen_rows |-> seen_rows])
     IN  /\ winner_rows' = acc.winner_rows
         /\ seen_rows' = acc.seen_rows
  /\ row_idx' = row_idx + 1
  /\ UNCHANGED <<tables, table_idx, pc>>
  /\ UNCHANGED notExtractVars

\* table.iterrows() is exhausted: next table
EndTable ==
  /\ AtTable
  /\ TableAccepted(table_idx)
  /\ row_idx = Len(CurrentTable.rows)
  /\ table_idx' = table_idx + 1
  /\ row_idx' = 0
  /\ UNCHANGED <<tables, pc, winner_rows, seen_rows>>
  /\ UNCHANGED notExtractVars

\* return winner_rows
ReturnRows ==
  /\ pc = "run"
  /\ table_idx = Len(tables)
  /\ pc' = "done"
  /\ UNCHANGED <<tables, table_idx, row_idx, winner_rows, seen_rows>>
  /\ UNCHANGED notExtractVars

ExtractNext ==
  \/ SkipTableWithoutHeaders
  \/ SkipTableWithoutSport
  \/ SkipRow
  \/ ProcessRow
  \/ EndTable
  \/ ReturnRows

SpecExtract == ExtractInit /\ [][ExtractNext]_vars

(***************************************************************************)
(* The loop of fetch_medal_events, one step per winner row.                *)
(***************************************************************************)
GroupInit ==
  /\ group_in \in RecordLists
  /\ group_pos = 0
  /\ group_pc = "run"
  /\ events_by_noc = <<>>
  /\ seen_by_noc = <<>>
  /\ SplitIdle
  /\ ExtractIdle
  /\ MatchIdle
  /\ PipelineIdle

AtGroupRow == group_pc = "run" /\ group_pos < Len(group_in)

GroupRow == group_in[group_pos + 1]

\* the key of the row is already in seen_by_noc[noc]
GroupSeen(row) ==
  IF row.noc \in DOMAIN seen_by_noc
  THEN GroupKey(EventData(row)) \in seen_by_noc[row.noc]
  ELSE FALSE

\* the row has no country code: continue
GroupSkipRow ==
  /\ AtGroupRow
  /\ NoNoc(GroupRow.noc)
  /\ group_pos' = group_pos + 1
  /\ UNCHANGED <<group_in, group_pc, events_by_noc, seen_by_noc>>
  /\ UNCHANGED notGroupVars

\* the key was seen for this country: continue
GroupDropDuplicate ==
  /\ AtGroupRow
  /\ ~NoNoc(GroupRow.noc)
  /\ GroupSeen(GroupRow)
  /\ group_pos' = group_pos + 1
  /\ UNCHANGED <<group_in, group_pc, events_by_noc, seen_by_noc>>
  /\ UNCHANGED notGroupVars

\* the entry is appended to the list of its country
GroupAppend ==
  /\ AtGroupRow
  /\ ~NoNoc(GroupRow.noc)
  /\ ~GroupSeen(GroupRow)
  /\ LET noc == GroupRow.noc
         event_data == EventData(GroupRow)
     IN  IF noc \in DOMAIN events_by_noc
         THEN /\ events_by_noc' =
                   [events_by_noc EXCEPT ![noc] = Append(@, event_data)]
              /\ seen_by_noc' =
                   [seen_by_noc EXCEPT ![noc] = @ \cup {GroupKey(event_data)}]
         ELSE /\ events_by_noc' = events_by_noc @@ (noc :> <<event_data>>)
              /\ seen_by_noc' = seen_by_noc @@ (noc :> {GroupKey(event_data)})
  /\ group_pos' = group_pos + 1
  /\ UNCHANGED <<group_in, group_pc>>
  /\ UNCHANGED notGroupVars

\* return events_by_noc
GroupReturn ==
  /\ group_pc = "run"
  /\ group_pos = Len(group_in)
  /\ group_pc' = "done"
  /\ UNCHANGED <<group_in, group_pos, events_by_noc, seen_by_noc>>
  /\ UNCHANGED notGroupVars

GroupNext == GroupSkipRow \/ GroupDropDuplicate \/ GroupAppend \/ GroupReturn

SpecGroup == GroupInit /\ [][GroupNext]_vars

(***************************************************************************)
(* One call of matches_daily_double.                                       *)
(***************************************************************************)
MatchInit ==
  /\ dd_row \in MatchRows
  /\ dd_config \in MatchConfigs
  /\ dd_result = "pending"
  /\ SplitIdle
  /\ ExtractIdle
  /\ GroupIdle
  /\ PipelineIdle

Match ==
  /\ dd_result = "pending"
  /\ dd_result' = IF matches_daily_double(dd_row, dd_config) THEN "True" ELSE "False"
  /\ UNCHANGED <<dd_row, dd_config>>
  /\ UNCHANGED notMatchVars

MatchNext == Match

SpecMatch == MatchInit /\ [][MatchNext]_vars

(***************************************************************************)
(* One call of fetch_daily_doubles.                                        *)
(***************************************************************************)
DoublesInit ==
  /\ double_events \in DoubleConfigs
  /\ double_in \in DoubleLists
  /\ double_out = <<>>
  /\ double_pc = "run"
  /\ SplitIdle
  /\ ExtractIdle
  /\ GroupIdle
  /\ MatchIdle
  /\ NormIdle
  /\ ScoreIdle
  /\ MainIdle
  /\ TextIdle

Classify ==
  /\ double_pc = "run"
  /\ double_out' = fetch_daily_doubles(double_in, double_events)
  /\ double_pc' = "done"
  /\ UNCHANGED <<double_events, double_in>>
  /\ UNCHANGED notDoublesVars

DoublesNext == Classify

SpecDoubles == DoublesInit /\ [][DoublesNext]_vars

(***************************************************************************)
(* One call of normalize_medals_df.                                        *)
(***************************************************************************)
NormInit ==
  /\ norm_in \in TotalsLists
  /\ norm_out = <<>>
  /\ norm_pc = "run"
  /\ SplitIdle
  /\ ExtractIdle
  /\ GroupIdle
  /\ MatchIdle
  /\ DoublesIdle
  /\ ScoreIdle
  /\ MainIdle
  /\ TextIdle

Normalize ==
  /\ norm_pc = "run"
  /\ ~AstypeRaises(norm_in)
  /\ norm_out' = normalize_medals_df(norm_in)
  /\ norm_pc' = "done"
  /\ UNCHANGED norm_in
  /\ UNCHANGED notNormVars

\* astype(int) raises on an infinite value: nothing is returned
NormalizeRaises ==
  /\ norm_pc = "run"
  /\ AstypeRaises(norm_in)
  /\ norm_pc' = "raised"
  /\ UNCHANGED <<norm_in, norm_out>>
  /\ UNCHANGED notNormVars

NormNext == Normalize \/ NormalizeRaises

SpecNormalize == NormInit /\ [][NormNext]_vars

(***************************************************************************)
(* One call of build_friend_scores, one step per block of the function.    *)
(***************************************************************************)
ScoreInit ==
  /\ score_friends \in FriendLists
  /\ score_medals \in ScoreTotals
  /\ score_double \in ScoreDoubles
  /\ merged = <<>>
  /\ score_pc = "merge"
  /\ SplitIdle
  /\ ExtractIdle
  /\ GroupIdle
  /\ MatchIdle
  /\ DoublesIdle
  /\ NormIdle
  /\ MainIdle
  /\ TextIdle

\* the codes cleaned, the totals normalised and merged, the base points; the
\* totals are a frame normalize_medals_df returns without raising
ScoreMerge ==
  /\ score_pc = "merge"
  /\ ~AstypeRaises(score_medals)
  /\ merged' = MergedFrame(score_friends, score_medals)
  /\ score_pc' = "penalty"
  /\ UNCHANGED <<score_friends, score_medals, score_double>>
  /\ UNCHANGED notScoreVars

\* the penalty
ScorePenalty ==
  /\ score_pc = "penalty"
  /\ merged' = PenaltyColumn(merged)
  /\ score_pc' = "bonus"
  /\ UNCHANGED <<score_friends, score_medals, score_double>>
  /\ UNCHANGED notScoreVars

\* the column daily_double
ScoreDailyDouble ==
  /\ score_pc = "bonus"
  /\ merged' = DailyDoubleColumn(merged, score_double)
  /\ score_pc' = "total"
  /\ UNCHANGED <<score_friends, score_medals, score_double>>
  /\ UNCHANGED notScoreVars

\* points_total, total_medals and the sort of the returned frame
ScoreSort ==
  /\ score_pc = "total"
  /\ merged' = TotalsAndSort(merged)
  /\ score_pc' = "done"
  /\ UNCHANGED <<score_friends, score_medals, score_double>>
  /\ UNCHANGED notScoreVars

ScoreNext == ScoreMerge \/ ScorePenalty \/ ScoreDailyDouble \/ ScoreSort

SpecScore == ScoreInit /\ [][ScoreNext]_vars

(***************************************************************************)
(* The script: __main__ of olympic-dash.py, one step per statement; the    *)
(* loops of fetch_medal_winner_rows run step by step in between.           *)
(***************************************************************************)
MainInit ==
  /\ wiki_response \in WikiResponses
  /\ events_response \in EventResponses
  /\ friends_file \in FriendFiles
  /\ cache_file \in CacheFiles
  /\ main_pc = "fetch_medals"
  /\ MainUnassigned
  /\ SplitIdle
  /\ ExtractIdle
  /\ GroupIdle
  /\ MatchIdle
  /\ DoublesIdle
  /\ NormIdle
  /\ ScoreIdle
  /\ TextIdle

\* fetch_medals returns: the cache is written, then the frame returned
FetchMedalsReturns ==
  /\ main_pc = "fetch_medals"
  /\ fetch_medals(wiki_response).raised = ""
  /\ medals_df' = fetch_medals(wiki_response).medals_df
  /\ cache_file' = [exists |-> TRUE, rows |-> FrameText(medals_df')]
  /\ cache_writes' = cache_writes + 1
  /\ main_pc' = "load_friends"
  /\ UNCHANGED <<wiki_response, events_response, friends_file, cache_reads,
                 raised, friends_df, main_winner_rows, double_df,
                 double_results, scored_df, EVENT_DATA, output_written>>
  /\ UNCHANGED notMainVars

\* the exception is swallowed and the run goes on without totals
FetchMedalsRaises_silent ==
  /\ main_pc = "fetch_medals"
  /\ fetch_medals(wiki_response).raised \notin {"", "RequestException"}
  /\ medals_df' = <<>>
  /\ main_pc' = "load_friends"
  /\ UNCHANGED <<wiki_response, events_response, friends_file, cache_file,
                 cache_reads, cache_writes, raised, friends_df,
                 main_winner_rows, double_df, double_results, scored_df,
                 EVENT_DATA, output_written>>
  /\ UNCHANGED notMainVars

\* fetch_medals raises an exception that is no RequestException: no handler
FetchMedalsRaises ==
  /\ main_pc = "fetch_medals"
  /\ fetch_medals(wiki_response).raised \notin {"", "RequestException"}
  /\ raised' = fetch_medals(wiki_response).raised
  /\ main_pc' = "fatal"
  /\ UNCHANGED <<wiki_response, events_response, friends_file, cache_file,
                 cache_reads, cache_writes, medals_df, friends_df,
                 main_winner_rows, double_df, double_results, scored_df,
                 EVENT_DATA, output_written>>
  /\ UNCHANGED notMainVars

\* a handler of every exception
FetchMedalsFallsBack_any ==
  /\ main_pc = "fetch_medals"
  /\ fetch_medals(wiki_response).raised # ""
  /\ cache_file.exists
  /\ medals_df' = load_medals_cache(cache_file)
  /\ cache_reads' = cache_reads + 1
  /\ main_pc' = "load_friends"
  /\ UNCHANGED <<wiki_response, events_response, friends_file, cache_file,
                 cache_writes, raised, friends_df, main_winner_rows, double_df,
                 double_results, scored_df, EVENT_DATA, output_written>>
  /\ UNCHANGED notMainVars

\* the handler of RequestException with a cache file: load_medals_cache; the
\* file was written by to_csv from a frame of integers
FetchMedalsFallsBack ==
  /\ main_pc = "fetch_medals"
  /\ fetch_medals(wiki_response).raised = "RequestException"
  /\ cache_file.exists
  /\ ~AstypeRaises(cache_file.rows)
  /\ medals_df' = load_medals_cache(cache_file)
  /\ cache_reads' = cache_reads + 1
  /\ main_pc' = "load_friends"
  /\ UNCHANGED <<wiki_response, events_response, friends_file, cache_file,
                 cache_writes, raised, friends_df, main_winner_rows, double_df,
                 double_results, scored_df, EVENT_DATA, output_written>>
  /\ UNCHANGED notMainVars

\* the handler of RequestException without a cache file: raise
FetchMedalsFails ==
  /\ main_pc = "fetch_medals"
  /\ fetch_medals(wiki_response).raised = "RequestException"
  /\ ~cache_file.exists
  /\ raised' = "RequestException"
  /\ main_pc' = "fatal"
  /\ UNCHANGED <<wiki_response, events_response, friends_file, cache_file,
                 cache_reads, cache_writes, medals_df, friends_df,
                 main_winner_rows, double_df, double_results, scored_df,
                 EVENT_DATA, output_written>>
  /\ UNCHANGED notMainVars

\* load_friends raises the ValueError of the missing columns: no handler
LoadFriendsFails ==
  /\ main_pc = "load_friends"
  /\ LoadFriendsRaises(friends_file)
  /\ raised' = "ValueError"
  /\ main_pc' = "fatal"
  /\ UNCHANGED <<wiki_response, events_response, friends_file, cache_file,
                 cache_reads, cache_writes, medals_df, friends_df,
                 main_winner_rows, double_df, double_results, scored_df,
                 EVENT_DATA, output_written>>
  /\ UNCHANGED notMainVars

\* friends_df = load_friends()
LoadFriends ==
  /\ main_pc = "load_friends"
  /\ ~LoadFriendsRaises(friends_file)
  /\ friends_df' = load_friends(friends_file)
  /\ main_pc' = "fetch_medal_winner_rows"
  /\ UNCHANGED <<wiki_response, events_response, friends_file, cache_file,
                 cache_reads, cache_writes, raised, medals_df,
                 main_winner_rows, double_df, double_results, scored_df,
                 EVENT_DATA, output_written>>
  /\ UNCHANGED notMainVars

\* what a step of fetch_medal_winner_rows called from __main__ leaves unchanged
callerVars ==
  <<wiki_response, events_response, friends_file, cache_file, cache_reads,
    cache_writes, raised, medals_df, friends_df, double_df, double_results,
    scored_df, output_written>>

\* fetch_medal_winner_rows is called and the page is read into tables
CallFetchWinnerRows ==
  /\ main_pc = "fetch_medal_winner_rows"
  /\ events_response.ok
  /\ tables' = events_response.tables
  /\ table_idx' = 0
  /\ row_idx' = 0
  /\ pc' = "run"
  /\ winner_rows' = <<>>
  /\ seen_rows' = {}
  /\ main_pc' = "in_fetch_medal_winner_rows"
  /\ UNCHANGED <<callerVars, main_winner_rows, EVENT_DATA>>
  /\ UNCHANGED <<splitVars, groupVars, matchVars, doublesVars, normVars, scoreVars,
                 textVars>>

\* fetch_medal_winner_rows is called and the request fails: return []
FetchWinnerRowsFails ==
  /\ main_pc = "fetch_medal_winner_rows"
  /\ ~events_response.ok
  /\ pc' = "failed"
  /\ main_winner_rows' = <<>>
  /\ main_pc' = "fetch_daily_doubles"
  /\ UNCHANGED <<callerVars, EVENT_DATA>>
  /\ UNCHANGED <<tables, table_idx, row_idx, winner_rows, seen_rows>>
  /\ UNCHANGED <<splitVars, groupVars, matchVars, doublesVars, normVars, scoreVars,
                 textVars>>

\* a handler that returns the rows extracted so far
ExtractionRaises_partial ==
  /\ main_pc = "in_fetch_medal_winner_rows"
  /\ pc = "run"
  /\ pc' = "failed"
  /\ main_winner_rows' = winner_rows
  /\ main_pc' = "fetch_daily_doubles"
  /\ UNCHANGED <<callerVars, EVENT_DATA>>
  /\ UNCHANGED <<tables, table_idx, row_idx, winner_rows, seen_rows>>
  /\ UNCHANGED <<splitVars, groupVars, matchVars, doublesVars, normVars, scoreVars,
                 textVars>>

\* a statement inside the try block raises while the tables are iterated:
\* the handler returns [] whatever winner_rows holds
ExtractionRaises ==
  /\ main_pc = "in_fetch_medal_winner_rows"
  /\ pc = "run"
  /\ pc' = "failed"
  /\ main_winner_rows' = <<>>
  /\ main_pc' = "fetch_daily_doubles"
  /\ UNCHANGED <<callerVars, EVENT_DATA>>
  /\ UNCHANGED <<tables, table_idx, row_idx, winner_rows, seen_rows>>
  /\ UNCHANGED <<splitVars, groupVars, matchVars, doublesVars, normVars, scoreVars,
                 textVars>>

\* winner_rows = fetch_medal_winner_rows() after the loops ended
ReceiveWinnerRows ==
  /\ main_pc = "in_fetch_medal_winner_rows"
  /\ pc = "done"
  /\ main_winner_rows' = winner_rows
  /\ main_pc' = "fetch_daily_doubles"
  /\ UNCHANGED <<callerVars, EVENT_DATA>>
  /\ UNCHANGED notMainVars

\* double_df, double_results = fetch_daily_doubles(winner_rows)
FetchDailyDoubles ==
  /\ main_pc = "fetch_daily_doubles"
  /\ LET out == fetch_daily_doubles(main_winner_rows, DAILY_DOUBLE_EVENTS)
     IN  /\ double_df' = out.df
         /\ double_results' = out.results
  /\ main_pc' = "build_friend_scores"
  /\ UNCHANGED <<wiki_response, events_response, friends_file, cache_file,
                 cache_reads, cache_writes, raised, medals_df, friends_df,
                 main_winner_rows, scored_df, EVENT_DATA, output_written>>
  /\ UNCHANGED notMainVars

\* scored_df = build_friend_scores(friends_df, medals_df, double_df)
BuildFriendScores ==
  /\ main_pc = "build_friend_scores"
  /\ scored_df' = build_friend_scores(friends_df, FrameText(medals_df), double_df)
  /\ main_pc' = "fetch_medal_events"
  /\ UNCHANGED <<wiki_response, events_response, friends_file, cache_file,
                 cache_reads, cache_writes, raised, medals_df, friends_df,
                 main_winner_rows, double_df, double_results, EVENT_DATA,
                 output_written>>
  /\ UNCHANGED notMainVars

\* EVENT_DATA = fetch_medal_events(winner_rows)
FetchMedalEvents ==
  /\ main_pc = "fetch_medal_events"
  /\ EVENT_DATA' = fetch_medal_events(main_winner_rows)
  /\ main_pc' = "write"
  /\ UNCHANGED <<wiki_response, events_response, friends_file, cache_file,
                 cache_reads, cache_writes, raised, medals_df, friends_df,
                 main_winner_rows, double_df, double_results, scored_df,
                 output_written>>
  /\ UNCHANGED notMainVars

\* the page is built and OUTPUT_FILE written
WriteOutput ==
  /\ main_pc = "write"
  /\ output_written' = TRUE
  /\ main_pc' = "done"
  /\ UNCHANGED <<wiki_response, events_response, friends_file, cache_file,
                 cache_reads, cache_writes, raised, medals_df, friends_df,
                 main_winner_rows, double_df, double_results, scored_df,
                 EVENT_DATA>>
  /\ UNCHANGED notMainVars

MainNext ==
  \/ FetchMedalsReturns
  \/ FetchMedalsRaises
  \/ FetchMedalsFallsBack
  \/ FetchMedalsFails
  \/ LoadFriends
  \/ LoadFriendsFails
  \/ CallFetchWinnerRows
  \/ FetchWinnerRowsFails
  \/ ExtractionRaises
  \/ ExtractNext
  \/ ReceiveWinnerRows
  \/ FetchDailyDoubles
  \/ BuildFriendScores
  \/ FetchMedalEvents
  \/ WriteOutput

SpecMain == MainInit /\ [][MainNext]_vars

(***************************************************************************)
(* normalize_text and canonical_text of olympic-dash.py, applied to a text *)
(* and then to their own results.                                          *)
(***************************************************************************)
TextInit ==
  /\ text_in \in Texts
  /\ text_marked = text_in
  /\ text_once = <<>>
  /\ text_twice = <<>>
  /\ text_pc = "input"
  /\ SplitIdle
  /\ ExtractIdle
  /\ GroupIdle
  /\ MatchIdle
  /\ DoublesIdle
  /\ NormIdle
  /\ ScoreIdle
  /\ MainIdle

\* the page carries a footnote marker somewhere in the text
TextInsertMarker ==
  /\ text_pc = "input"
  /\ text_marked = text_in
  /\ \E p \in 0..Len(text_in), marker \in Markers :
       text_marked' = InsertAt(text_in, p, marker)
  /\ UNCHANGED <<text_in, text_once, text_twice, text_pc>>
  /\ UNCHANGED notTextVars

\* normalize_text(value) and canonical_text(value)
TextApply ==
  /\ text_pc = "input"
  /\ text_once' = [normalize |-> normalize_text(text_marked),
                   canonical |-> canonical_text(text_marked)]
  /\ text_pc' = "once"
  /\ UNCHANGED <<text_in, text_marked, text_twice>>
  /\ UNCHANGED notTextVars

\* the two functions applied to what they returned
TextApplyAgain ==
  /\ text_pc = "once"
  /\ text_twice' = [normalize |-> normalize_text(text_once.normalize),
                    canonical |-> canonical_text(text_once.canonical)]
  /\ text_pc' = "twice"
  /\ UNCHANGED <<text_in, text_marked, text_once>>
  /\ UNCHANGED notTextVars

TextNext == TextInsertMarker \/ TextApply \/ TextApplyAgain

SpecText == TextInit /\ [][TextNext]_vars

(***************************************************************************)
(* Properties of the athlete/country cell splitter.                        *)
(***************************************************************************)
CountryIndex == 1..Len(COUNTRY_TO_NOC)

\* the cleaned, lower-cased text of the current cell
CleanLower == StrLower(CleanCell(cell))

\* table entries whose name is a suffix of the cleaned, lower-cased cell
SuffixEntries == {i \in CountryIndex : EndsWith(CleanLower, COUNTRY_TO_NOC[i].name)}

LongestSuffixEntry ==
  CHOOSE i \in SuffixEntries :
    \A j \in SuffixEntries : Len(COUNTRY_TO_NOC[j].name) <= Len(COUNTRY_TO_NOC[i].name)

\* the cleaned text in front of the longest suffix name
TextBeforeSuffix ==
  SubSeq(CleanCell(cell), 1,
         Len(CleanCell(cell)) - Len(COUNTRY_TO_NOC[LongestSuffixEntry].name))

\* name occurs in t at p and is neither preceded nor followed by a letter,
\* a digit or an underscore
WholeWordAt(t, name, p) ==
  /\ p + Len(name) - 1 <= Len(t)
  /\ SubSeq(t, p, p + Len(name) - 1) = name
  /\ (p = 1 \/ ~IsWordChar(t[p - 1]))
  /\ (p + Len(name) - 1 = Len(t) \/ ~IsWordChar(t[p + Len(name)]))

\* whole-word occurrences <<entry, start>> of country names in the cell
Occurrences ==
  {o \in CountryIndex \X (1..Len(CleanLower)) :
     WholeWordAt(CleanLower, COUNTRY_TO_NOC[o[1]].name, o[2])}

OccEnd(o) == o[2] + Len(COUNTRY_TO_NOC[o[1]].name) - 1

\* occurrences after whose end no other occurrence ends
LastOccurrences == {o \in Occurrences : \A q \in Occurrences : OccEnd(q) <= OccEnd(o)}

\* some country name is a substring of the cleaned, lower-cased cell
MentionsCountry ==
  \E i \in CountryIndex, p \in 1..Len(CleanLower) :
    /\ p + Len(COUNTRY_TO_NOC[i].name) - 1 <= Len(CleanLower)
    /\ SubSeq(CleanLower, p, p + Len(COUNTRY_TO_NOC[i].name) - 1) = COUNTRY_TO_NOC[i].name

\* C1 as stated: when the cleaned, lower-cased cell ends with known country
\* names, the split returns the code of the longest of them and the athlete
\* is the text before that name with only its trailing separators trimmed.
C1_SuffixLongestTrailingTrim ==
  (split # Pending /\ SuffixEntries # {}) =>
    /\ split.noc = COUNTRY_TO_NOC[LongestSuffixEntry].noc
    /\ split.athlete = RStripChars(TextBeforeSuffix, Separators)

\* C1 amended: when the cleaned, lower-cased cell ends with known country
\* names, the split returns the code of the longest of them and the athlete
\* is the text before that name with separators trimmed at both ends,
\* whatever other country is mentioned earlier in the cell.
C1_SuffixLongestFirst ==
  (split # Pending /\ SuffixEntries # {}) =>
    /\ split.noc = COUNTRY_TO_NOC[LongestSuffixEntry].noc
    /\ split.athlete = StripChars(TextBeforeSuffix, Separators)

\* a split cell that ends with two country names of different length and
\* mentions a third country before them
C1_Witness ==
  /\ split # Pending
  /\ Cardinality(SuffixEntries) >= 2
  /\ \E o \in Occurrences : OccEnd(o) <= Len(TextBeforeSuffix)
  /\ split.noc = <<"K","O","R">>

\* C2 as stated: when no country name is a suffix of the cleaned cell but
\* some occur in it as whole words, the split returns the code of the name
\* whose whole-word occurrence is the last one over all names, and the
\* athlete is the text before that occurrence, separator-trimmed.
C2_FallbackLastMention ==
  (split # Pending /\ SuffixEntries = {} /\ Occurrences # {}) =>
    \E o \in LastOccurrences :
      /\ split.noc = COUNTRY_TO_NOC[o[1]].noc
      /\ split.athlete = StripChars(SubSeq(CleanCell(cell), 1, o[2] - 1), Separators)

\* C3: the empty cell, the cells "nan" and "NaN", every cell shorter than
\* three characters and every cell in which no country name is a suffix or a
\* whole word split to (None, None).
C3_NoCountryNoResult ==
  (/\ split # Pending
   /\ \/ cell = <<>>
      \/ cell = <<"n","a","n">>
      \/ cell = <<"N","a","N">>
      \/ Len(cell) < 3
      \/ (SuffixEntries = {} /\ Occurrences = {}))
  => split = NoneResult

\* a cell of three or more characters that contains a country name, but
\* neither as a suffix nor as a whole word, was split to (None, None)
C3_Witness ==
  /\ split = NoneResult
  /\ Len(cell) >= 3
  /\ cell # <<"n","a","n">>
  /\ MentionsCountry

\* some "[" before position p of s is not followed by a "]" before p
InsideOpenBracket(s, p) ==
  \E i \in 1..p : s[i] = "[" /\ \A j \in (i + 1)..p : s[j] # "]"

\* t contains a bracketed marker "[...]" with at least one character inside
HasMarker(t) ==
  \E i \in 1..Len(t), j \in 1..Len(t) :
    /\ j > i + 1
    /\ t[i] = "["
    /\ t[j] = "]"
    /\ \A k \in (i + 1)..(j - 1) : t[k] # "]"

\* the athlete of a split result is free of markers, of repeated or
\* non-blank whitespace and of separators at its ends
CleanAthleteText(a) ==
  /\ ~HasMarker(a)
  /\ \A i \in 1..Len(a) : a[i] # "\t"
  /\ \A i \in 1..(Len(a) - 1) : ~(a[i] = " " /\ a[i + 1] = " ")
  /\ a # <<>> => (a[1] \notin Separators /\ a[Len(a)] \notin Separators)

\* C4 as stated: inserting a bracketed marker anywhere, or lengthening a
\* whitespace run, never changes the split result, and the athlete of every
\* result is clean.
C4_EditInsensitiveAnywhere ==
  /\ (split # Pending /\ edit.kind # "none") => split = baseSplit
  /\ (split # Pending /\ split # NoneResult) => CleanAthleteText(split.athlete)

\* C4 amended: inserting a bracketed marker at any position that is not
\* inside a still open "[" of the cell, or lengthening a whitespace run,
\* never changes the split result, and the athlete of every result is clean.
C4_EditInsensitive ==
  /\ (/\ split # Pending
      /\ edit.kind # "none"
      /\ (edit.kind = "marker" => ~InsideOpenBracket(base, edit.pos)))
     => split = baseSplit
  /\ (split # Pending /\ split # NoneResult) => CleanAthleteText(split.athlete)

\* the cell with one blank between athlete and country got a second blank
\* and still splits to the same athlete and code
C4_Witness ==
  /\ edit.kind = "space"
  /\ cell = <<"F","r","a","n","j","o"," ","v","o","n"," ","A","l","l","m","e","n"," "," ","S","w","i","t","z","e","r","l","a","n","d">>
  /\ split = [athlete |-> <<"F","r","a","n","j","o"," ","v","o","n"," ","A","l","l","m","e","n">>, noc |-> <<"S","U","I">>]
  /\ baseSplit = split

(***************************************************************************)
(* Properties of the event table extractor.                                *)
(***************************************************************************)
\* a country name is a suffix of the cleaned, lower-cased text or occurs in
\* it as a whole word
Resolves(raw) ==
  LET t == StrLower(CleanCell(raw))
  IN  \E i \in CountryIndex :
        \/ EndsWith(t, COUNTRY_TO_NOC[i].name)
        \/ \E p \in 1..Len(t) : WholeWordAt(t, COUNTRY_TO_NOC[i].name, p)

\* the cleaned text is a country name and nothing else
OnlyCountry(raw) ==
  \E i \in CountryIndex : StrLower(CleanCell(raw)) = COUNTRY_TO_NOC[i].name

MedalNames == <<<<"g","o","l","d">>, <<"s","i","l","v","e","r">>, <<"b","r","o","n","z","e">>>>

\* rows of table t (0-based) that the row loop has iterated so far
RowsIterated(t) ==
  IF t < table_idx THEN Len(tables[t + 1].rows)
  ELSE IF t = table_idx /\ t < Len(tables) THEN row_idx
  ELSE 0

\* the record expected for the k-th medal cell of a row of table t
ExpectedRecord(t, row, k) ==
  LET table  == tables[t + 1]
      event  == clean_event_name(RowGet(table, row, <<"E","v","e","n","t">>))
      result == extract_athlete_and_country(RowGet(table, row, MEDAL_TYPES[k]))
      info   == TABLE_TO_SPORT(t)
  IN  [sport      |-> info.sport,
       gender     |-> info.gender,
       event      |-> event,
       full_event |-> (IF info.gender = <<>> THEN <<>> ELSE info.gender \o <<" ">>)
                        \o info.sport \o <<":", " ">> \o event,
       athlete    |-> result.athlete,
       medal      |-> MedalNames[k],
       noc        |-> result.noc,
       url        |-> MEDAL_WINNERS_URL]

\* the medal cells that resolve to a country, in the order the loops meet
\* them, among the rows iterated so far that reached the medal loop
RECURSIVE CandidatesFrom(_, _, _)
CandidatesFrom(t, r, k) ==
  IF t >= Len(tables) \/ t > table_idx THEN <<>>
  ELSE IF ~TableAccepted(t) \/ r > RowsIterated(t) THEN CandidatesFrom(t + 1, 1, 1)
  ELSE IF k > 3 \/ RowSkipped(tables[t + 1], tables[t + 1].rows[r])
       THEN CandidatesFrom(t, r + 1, 1)
  ELSE LET raw == RowGet(tables[t + 1], tables[t + 1].rows[r], MEDAL_TYPES[k])
       IN  (IF Resolves(raw)
            THEN <<[rec |-> ExpectedRecord(t, tables[t + 1].rows[r], k),
                    raw |-> raw, t |-> t, r |-> r, k |-> k]>>
            ELSE <<>>) \o CandidatesFrom(t, r, k + 1)

Candidates == CandidatesFrom(0, 1, 1)

\* text compared case-insensitively with whitespace collapsed
NormText(x) == StrLower(CollapseSpace(StripSpace(x)))

NormKey(rec) ==
  <<NormText(rec.sport), NormText(rec.gender), NormText(rec.event),
    NormText(rec.medal), NormText(rec.noc), NormText(rec.athlete)>>

\* the records of a candidate list, each key kept at its first occurrence
RECURSIVE FirstOccurrences(_, _)
FirstOccurrences(cands, seen) ==
  IF cands = <<>> THEN <<>>
  ELSE IF NormKey(Head(cands).rec) \in seen THEN FirstOccurrences(Tail(cands), seen)
  ELSE <<Head(cands).rec>>
         \o FirstOccurrences(Tail(cands), seen \cup {NormKey(Head(cands).rec)})

\* C5 as stated: a page of two tables, the well-formed medal table with one
\* gold row for Switzerland and a table without a "gold" header, yields
\* exactly one record, the Swiss gold.
C5_TwoTablePage ==
  (/\ pc = "done"
   /\ tables \in {<<SwissGoldTable, NoGoldTable>>, <<NoGoldTable, SwissGoldTable>>})
  => /\ Len(winner_rows) = 1
     /\ winner_rows[1].medal = <<"g","o","l","d">>
     /\ winner_rows[1].noc = <<"S","U","I">>

\* the keys of a list of records or candidates, as a sequence
RECURSIVE KeysOf(_)
KeysOf(recs) ==
  IF recs = <<>> THEN <<>> ELSE <<NormKey(Head(recs))>> \o KeysOf(Tail(recs))

RECURSIVE RecordsOf(_)
RecordsOf(cands) ==
  IF cands = <<>> THEN <<>> ELSE <<Head(cands).rec>> \o RecordsOf(Tail(cands))

\* C6: for every row that reaches the medal loop and each cell it reads
\* under Gold, Silver and Bronze, a record is in the output exactly when the
\* cell resolves to a country (one per key); a cell that is only a country
\* name is recorded with an empty athlete; every record has the medal of its
\* source column and a code of the country table.
C6_EmitIffResolved ==
  LET cands    == Candidates
      expected == RecordsOf(cands)
      candKeys == KeysOf(expected)
      rowKeys  == KeysOf(winner_rows)
  IN  /\ Range(candKeys) = Range(rowKeys)
      /\ Range(winner_rows) \subseteq Range(expected)
      /\ Len(winner_rows) = Cardinality(Range(candKeys))
      /\ \A j \in 1..Len(winner_rows) :
           /\ winner_rows[j].medal \in Range(MedalNames)
           /\ winner_rows[j].noc \in NOCS
      /\ \A i \in 1..Len(cands) :
           OnlyCountry(cands[i].raw) =>
             \E j \in 1..Len(winner_rows) :
               /\ rowKeys[j] = candKeys[i]
               /\ winner_rows[j].athlete = <<>>

\* the extractor returned after rows with a team credit, with a cell of an
\* unknown country and with an empty cell were iterated
C6_Witness ==
  /\ pc = "done"
  /\ \E j \in 1..Len(winner_rows) : winner_rows[j].athlete = <<>>
  /\ \E t \in 0..(Len(tables) - 1) :
       /\ TableAccepted(t)
       /\ \E r \in 1..Len(tables[t + 1].rows), k \in 1..3 :
            /\ ~RowSkipped(tables[t + 1], tables[t + 1].rows[r])
            /\ RowGet(tables[t + 1], tables[t + 1].rows[r], MEDAL_TYPES[k]) = <<"U","n","k","n","o","w","n","l","a","n","d">>
  /\ Len(winner_rows) >= 2

\* C7: no two records of the output share (sport, gender, event, medal,
\* code, athlete) compared case-insensitively with whitespace collapsed; the
\* output is the resolving cells in encounter order, each key kept at its
\* first occurrence.
C7_UniqueFirstKept ==
  LET rowKeys == KeysOf(winner_rows)
  IN  /\ \A i, j \in 1..Len(rowKeys) : i # j => rowKeys[i] # rowKeys[j]
      /\ winner_rows = FirstOccurrences(Candidates, {})

\* the extractor returned and dropped a later copy of a record that differs
\* from the kept one in letter case
C7_Witness ==
  /\ pc = "done"
  /\ LET cands == RecordsOf(Candidates)
         keys  == KeysOf(cands)
     IN  \E i, j \in 1..Len(cands) :
           /\ i < j
           /\ keys[i] = keys[j]
           /\ cands[i] # cands[j]
           /\ cands[i] \in Range(winner_rows)
           /\ cands[j] \notin Range(winner_rows)

\* two candidates come from two rows of one table whose event cells and
\* medal cells differ only in whitespace and bracketed footnote markers
SameRowTwice(a, b) ==
  /\ a.t = b.t
  /\ a.r < b.r
  /\ a.k = b.k
  /\ CleanCell(a.raw) = CleanCell(b.raw)
  /\ CleanCell(RowGet(tables[a.t + 1], tables[a.t + 1].rows[a.r], <<"E","v","e","n","t">>))
       = CleanCell(RowGet(tables[b.t + 1], tables[b.t + 1].rows[b.r], <<"E","v","e","n","t">>))

\* C8 as stated: a medal row fed twice, the copies differing only in
\* whitespace or bracketed footnote markers of the event cell or the medal
\* cell, yields exactly one record.
C8_SameRowTwiceOneRecord ==
  LET cands == Candidates
  IN  \A i, j \in 1..Len(cands) :
        SameRowTwice(cands[i], cands[j]) =>
          Cardinality({n \in 1..Len(winner_rows) :
                         winner_rows[n] \in {cands[i].rec, cands[j].rec}}) = 1

(***************************************************************************)
(* Properties of the per-country grouping.                                 *)
(***************************************************************************)
\* the winner rows iterated so far that carry the country code noc
RECURSIVE RowsOfNoc(_, _, _)
RowsOfNoc(rows, n, noc) ==
  IF n = 0 THEN <<>>
  ELSE RowsOfNoc(rows, n - 1, noc)
         \o (IF rows[n].noc = noc THEN <<rows[n]>> ELSE <<>>)

\* (event label, medal, athlete) of a winner row, compared case-insensitively
LabelKey(row) == <<StrLower(row.full_event), StrLower(row.medal), StrLower(row.athlete)>>

\* the entries of a row list, each label key kept at its first occurrence
RECURSIVE FirstEntries(_, _)
FirstEntries(rows, seen) ==
  IF rows = <<>> THEN <<>>
  ELSE IF LabelKey(Head(rows)) \in seen THEN FirstEntries(Tail(rows), seen)
  ELSE <<[event   |-> Head(rows).full_event,
          athlete |-> Head(rows).athlete,
          medal   |-> Head(rows).medal,
          url     |-> Head(rows).url]>>
         \o FirstEntries(Tail(rows), seen \cup {LabelKey(Head(rows))})

IteratedNocs == {group_in[i].noc : i \in 1..group_pos} \ {<<>>, <<"None">>}

\* C9: the grouping has one list per country code met so far; the list of a
\* country holds the entries of the rows with that code and no others, in
\* input order, each (event label, medal, athlete) kept once at its first
\* occurrence, compared case-insensitively; rows without a code are in no
\* list.
C9_GroupedOncePerCountry ==
  /\ DOMAIN events_by_noc = IteratedNocs
  /\ \A noc \in DOMAIN events_by_noc :
       events_by_noc[noc] = FirstEntries(RowsOfNoc(group_in, group_pos, noc), {})

\* the grouping returned after it dropped a copy that differs in letter case
\* from an entry of the same country, kept the same entry for a second
\* country and met a row without a code
C9_Witness ==
  /\ group_pc = "done"
  /\ Cardinality(DOMAIN events_by_noc) >= 2
  /\ \E i \in 1..Len(group_in) : NoNoc(group_in[i].noc)
  /\ \E i, j \in 1..Len(group_in) :
       /\ i < j
       /\ group_in[i].noc = group_in[j].noc
       /\ ~NoNoc(group_in[i].noc)
       /\ group_in[i] # group_in[j]
       /\ LabelKey(group_in[i]) = LabelKey(group_in[j])

(***************************************************************************)
(* Properties of the daily-double matcher.                                 *)
(***************************************************************************)
\* the canonical, non-empty texts of a descriptor field
CanonicalSet(texts) == {canonical_text(texts[i]) : i \in 1..Len(texts)} \ {<<>>}

IsSubstring(sub, s) ==
  \E a \in 1..(Len(s) + 1), b \in 0..Len(s) : a <= b + 1 /\ SubSeq(s, a, b) = sub

\* the five conditions of the contract, on canonicalized text
MatchContract(row, config) ==
  LET event == canonical_text(row.event)
  IN  /\ canonical_text(config.sport) \in {<<>>, canonical_text(row.sport)}
      /\ canonical_text(config.gender) \in {<<>>, canonical_text(row.gender)}
      /\ CanonicalSet(config.event_exact) # {} => event \in CanonicalSet(config.event_exact)
      /\ \A k \in CanonicalSet(config.event_exclude_keywords) : ~IsSubstring(k, event)
      /\ \A k \in CanonicalSet(config.event_keywords) : IsSubstring(k, event)

SlalomRow ==
  [sport |-> <<"A","l","p","i","n","e"," ","s","k","i","i","n","g">>, gender |-> <<"M","e","n","'","s">>,
   event |-> <<"S","l","a","l","o","m">>]

GiantSlalomRow ==
  [sport |-> <<"A","l","p","i","n","e"," ","s","k","i","i","n","g">>, gender |-> <<"M","e","n","'","s">>,
   event |-> <<"G","i","a","n","t"," ","s","l","a","l","o","m">>]

\* C10: the matcher returns true exactly when sport and gender equal the
\* required ones (if given), the event equals an exact-match name (if any is
\* given), contains no excluded keyword and contains every required keyword,
\* all on canonicalized text; empty fields impose no constraint.  The Men's
\* Slalom row matches the exact "slalom" descriptor and not the exact "giant
\* slalom" one; the Giant slalom row does not match the "slalom" descriptor.
C10_MatchContract ==
  dd_result \in {"True", "False"} =>
    /\ (dd_result = "True") = MatchContract(dd_row, dd_config)
    /\ (dd_row = SlalomRow /\ dd_config = DAILY_DOUBLE_EVENTS[4]) => dd_result = "True"
    /\ (dd_row = SlalomRow /\ dd_config = GiantSlalomConfig) => dd_result = "False"
    /\ (dd_row = GiantSlalomRow /\ dd_config = DAILY_DOUBLE_EVENTS[4]) => dd_result = "False"

\* the Giant slalom row was tested against the exact "slalom" descriptor,
\* whose keyword it contains, and was rejected
C10_Witness ==
  /\ dd_row = GiantSlalomRow
  /\ dd_config = DAILY_DOUBLE_EVENTS[4]
  /\ dd_result = "False"
  /\ IsSubstring(canonical_text(dd_config.event_keywords[1]), canonical_text(dd_row.event))

(***************************************************************************)
(* Properties of the daily-double classifier.                              *)
(***************************************************************************)
\* the record carries a medal and a country code the classifier counts
DoubleValid(r) ==
  /\ normalize_text(r.medal) \in { <<"g","o","l","d">>, <<"s","i","l","v","e","r">>, <<"b","r","o","n","z","e">> }
  /\ clean_noc(r.noc) # <<>>

\* the descriptors of the configuration that the record satisfies
SatisfiedBy(r, events) ==
  {k \in 1..Len(events) : matches_daily_double(r, events[k])}

\* the first of them in configured order, 0 when there is none
FirstSatisfied(r, events) ==
  IF \A k \in 1..Len(events) : ~matches_daily_double(r, events[k]) THEN 0
  ELSE CHOOSE k \in 1..Len(events) :
         /\ matches_daily_double(r, events[k])
         /\ \A j \in 1..(k - 1) : ~matches_daily_double(r, events[j])

\* the canonicalized sport, gender, event, medal and country of the record
BonusKey(r) ==
  <<canonical_text(r.sport), canonical_text(r.gender), canonical_text(r.event),
    normalize_text(r.medal), clean_noc(r.noc)>>

\* for every record, the first descriptor it satisfies (0 for none, and for
\* a record that is not valid)
FirstSatisfiedAll(rows, events) ==
  [i \in 1..Len(rows) |->
     IF DoubleValid(rows[i]) THEN FirstSatisfied(rows[i], events) ELSE 0]

\* for every record, its key
BonusKeyAll(rows) == [i \in 1..Len(rows) |-> BonusKey(rows[i])]

\* record i is counted: it is valid, satisfies a descriptor, and no earlier
\* valid record with the same first descriptor has its key
Contributes(firsts, keys, i) ==
  /\ firsts[i] # 0
  /\ \A j \in 1..(i - 1) : ~(firsts[j] = firsts[i] /\ keys[j] = keys[i])

\* the positions of the records counted for descriptor k, in input order
ContributorsOf(firsts, keys, k) ==
  SelectSeq([i \in 1..Len(firsts) |-> i],
            LAMBDA i : firsts[i] = k /\ Contributes(firsts, keys, i))

\* the (medal, code) pair reported for a record
ReportedPair(r) == <<StrTitle(normalize_text(r.medal)), clean_noc(r.noc)>>

\* C11: the classifier is first-match-wins.  The results reported for a
\* descriptor are exactly the records, in input order, whose first satisfied
\* descriptor in configured order it is, without the records whose key an
\* earlier record already gave to that descriptor; a record with a medal
\* other than gold, silver or bronze or with an empty country code is
\* reported nowhere, and a dropped duplicate is not passed on to a later
\* descriptor.
C11_FirstMatchWins ==
  double_pc = "done" =>
    /\ Len(double_out.results) = Len(double_events)
    /\ \A firsts \in {FirstSatisfiedAll(double_in, double_events)} :
       \A keys \in {BonusKeyAll(double_in)} :
       \A k \in 1..Len(double_events) :
       \A counted \in {ContributorsOf(firsts, keys, k)} :
         /\ double_out.results[k].event = double_events[k].name
         /\ Len(double_out.results[k].results) = Len(counted)
         /\ \A n \in 1..Len(counted) :
              double_out.results[k].results[n] = ReportedPair(double_in[counted[n]])

\* two records with the same key satisfy both descriptors of the overlapping
\* configuration: the first is reported for the first descriptor, the second
\* nowhere, and a record with an unknown medal nowhere
C11_Witness ==
  /\ double_pc = "done"
  /\ double_events = OverlappingEvents
  /\ Len(double_in) = 3
  /\ Cardinality(SatisfiedBy(double_in[1], double_events)) = 2
  /\ DoubleValid(double_in[1])
  /\ DoubleValid(double_in[2])
  /\ BonusKey(double_in[1]) = BonusKey(double_in[2])
  /\ double_in[1] # double_in[2]
  /\ ~DoubleValid(double_in[3])
  /\ Len(double_out.results[1].results) = 1
  /\ double_out.results[2].results = <<>>

\* the distinct keys of the counted records of one country and one medal
CountedKeys(firsts, keys, noc, medal) ==
  {keys[i] : i \in {j \in 1..Len(keys) :
       firsts[j] # 0 /\ keys[j][5] = noc /\ keys[j][4] = medal}}

\* the countries with a counted record
CountedNocs(firsts, keys) ==
  {keys[i][5] : i \in {j \in 1..Len(keys) : firsts[j] # 0}}

\* C12: the bonus totals ignore the athlete.  The frame has one row per
\* country with a counted record, and its gold, silver and bronze counts are
\* the numbers of distinct (sport, gender, event, medal, country) keys among
\* the valid records that satisfy a descriptor, so that two records that
\* differ only in the athlete count once.
C12_BonusCountsDistinctKeys ==
  double_pc = "done" =>
    \A firsts \in {FirstSatisfiedAll(double_in, double_events)} :
    \A keys \in {BonusKeyAll(double_in)} :
      /\ DOMAIN double_out.df = CountedNocs(firsts, keys)
      /\ \A noc \in DOMAIN double_out.df :
           /\ double_out.df[noc].gold =
                Cardinality(CountedKeys(firsts, keys, noc, <<"g","o","l","d">>))
           /\ double_out.df[noc].silver =
                Cardinality(CountedKeys(firsts, keys, noc, <<"s","i","l","v","e","r">>))
           /\ double_out.df[noc].bronze =
                Cardinality(CountedKeys(firsts, keys, noc, <<"b","r","o","n","z","e">>))

\* two gold medals of one country in the same event, won by different
\* athletes, give one bonus gold
C12_Witness ==
  /\ double_pc = "done"
  /\ double_events = DAILY_DOUBLE_EVENTS
  /\ Len(double_in) = 2
  /\ double_in[1].athlete # double_in[2].athlete
  /\ BonusKey(double_in[1]) = BonusKey(double_in[2])
  /\ DoubleValid(double_in[1])
  /\ FirstSatisfied(double_in[1], double_events) # 0
  /\ DOMAIN double_out.df = { <<"S","U","I">> }
  /\ double_out.df[<<"S","U","I">>].gold = 1

(***************************************************************************)
(* Properties of the scoring.  Points are in half points: 16 is 8 points.  *)
(***************************************************************************)
\* the totals of a country in a normalised frame, zero medals when it has none
TotalsOf(medals, noc) ==
  IF \E i \in 1..Len(medals) : medals[i].noc = noc
  THEN medals[CHOOSE i \in 1..Len(medals) : medals[i].noc = noc]
  ELSE [gold |-> 0, silver |-> 0, bronze |-> 0, total |-> 0]

\* gold*3 + silver*2 + bronze*1, in half points
MedalHalfPoints(gold, silver, bronze) == 2 * (3 * gold + 2 * silver + bronze)

\* C13: base scoring.  Before the penalty, the points of each side of every
\* roster entry are gold*3 + silver*2 + bronze*1 of the totals of that
\* side's country, and zero for a country the totals do not have and for an
\* empty second country; in the scored output the same holds for the entries
\* without the penalty code, and their points_total is points_1 + points_2 +
\* daily_double.
C13_BaseScoring ==
  \A medals \in {normalize_medals_df(score_medals)} :
    /\ score_pc = "penalty" =>
         /\ Len(merged) = Len(score_friends)
         /\ \A i \in 1..Len(merged) :
            \A t1 \in {TotalsOf(medals, clean_noc(score_friends[i].noc_1))} :
            \A t2 \in {TotalsOf(medals, clean_noc(score_friends[i].noc_2))} :
              /\ merged[i].friend = score_friends[i].friend
              /\ merged[i].points_1 = MedalHalfPoints(t1.gold, t1.silver, t1.bronze)
              /\ merged[i].points_2 = MedalHalfPoints(t2.gold, t2.silver, t2.bronze)
    /\ score_pc = "done" =>
         /\ Len(merged) = Len(score_friends)
         /\ \A i \in 1..Len(merged) :
            \A f \in {score_friends[merged[i].index + 1]} :
            \A t1 \in {TotalsOf(medals, clean_noc(f.noc_1))} :
            \A t2 \in {TotalsOf(medals, clean_noc(f.noc_2))} :
              (clean_noc(f.noc_1) # PENALTY_NOC /\ clean_noc(f.noc_2) # PENALTY_NOC) =>
                /\ merged[i].friend = f.friend
                /\ merged[i].points_1 = MedalHalfPoints(t1.gold, t1.silver, t1.bronze)
                /\ merged[i].points_2 = MedalHalfPoints(t2.gold, t2.silver, t2.bronze)
                /\ merged[i].points_total =
                     merged[i].points_1 + merged[i].points_2 + merged[i].daily_double

\* totals of 2 gold and 1 silver, no second country and no bonus give 8
\* points, and a country the totals do not have gives none
C13_Witness ==
  /\ score_pc = "done"
  /\ score_double = <<>>
  /\ \E i \in 1..Len(merged) :
       /\ merged[i].noc_1 = <<"S","U","I">>
       /\ merged[i].noc_2 = <<>>
       /\ merged[i].gold_1 = 2 /\ merged[i].silver_1 = 1 /\ merged[i].bronze_1 = 0
       /\ merged[i].points_1 = 16
       /\ merged[i].points_2 = 0
       /\ merged[i].points_total = 16
  /\ \E i \in 1..Len(merged) :
       /\ merged[i].noc_1 = <<"F","I","N">>
       /\ merged[i].points_total = 0

\* C14: the penalty.  Once the penalty is applied, the points of a side are
\* half its base points when the side holds the penalty code and its base
\* points otherwise, on either side and independently of the other side.
C14_PenaltyOnItsSideOnly ==
  score_pc \in {"bonus", "total", "done"} =>
    \A i \in 1..Len(merged) :
      /\ merged[i].points_1 * (IF merged[i].noc_1 = PENALTY_NOC THEN 2 ELSE 1) =
           MedalHalfPoints(merged[i].gold_1, merged[i].silver_1, merged[i].bronze_1)
      /\ merged[i].points_2 * (IF merged[i].noc_2 = PENALTY_NOC THEN 2 ELSE 1) =
           MedalHalfPoints(merged[i].gold_2, merged[i].silver_2, merged[i].bronze_2)

\* an entry with the penalty code on its second side: its 8 base points
\* become 4 while the 8 points of the first side stay
C14_Witness ==
  /\ score_pc = "done"
  /\ \E i \in 1..Len(merged) :
       /\ merged[i].noc_1 = <<"S","U","I">>
       /\ merged[i].noc_2 = PENALTY_NOC
       /\ merged[i].gold_1 = 2 /\ merged[i].silver_1 = 1 /\ merged[i].bronze_1 = 0
       /\ merged[i].gold_2 = 2 /\ merged[i].silver_2 = 1 /\ merged[i].bronze_2 = 0
       /\ merged[i].points_1 = 16
       /\ merged[i].points_2 = 8

\* the bonus of one country code, in half points
BonusHalfPoints(noc, dd) ==
  IF noc \notin DOMAIN dd THEN 0
  ELSE IF noc = PENALTY_NOC
       THEN 3 * dd[noc].gold + 2 * dd[noc].silver + dd[noc].bronze
       ELSE MedalHalfPoints(dd[noc].gold, dd[noc].silver, dd[noc].bronze)

\* C15: bonus scoring.  The daily-double bonus of an entry is the sum over
\* its two country codes of gold*3 + silver*2 + bronze*1 of the bonus
\* medals, halved once for the penalty code and whole for every other code,
\* and it is added to the points of the two sides.
C15_BonusScoring ==
  score_pc = "done" =>
    \A i \in 1..Len(merged) :
      /\ merged[i].daily_double =
           BonusHalfPoints(merged[i].noc_1, score_double)
           + BonusHalfPoints(merged[i].noc_2, score_double)
      /\ merged[i].points_total =
           merged[i].points_1 + merged[i].points_2 + merged[i].daily_double

\* one gold of the penalty code, won in a bonus event: 1.5 points as base
\* and 1.5 as bonus
C15_Witness ==
  /\ score_pc = "done"
  /\ PENALTY_NOC \in DOMAIN score_double
  /\ score_double[PENALTY_NOC] = [gold |-> 1, silver |-> 0, bronze |-> 0]
  /\ \E i \in 1..Len(merged) :
       /\ merged[i].noc_1 = PENALTY_NOC
       /\ merged[i].noc_2 = <<>>
       /\ merged[i].gold_1 = 1 /\ merged[i].silver_1 = 0 /\ merged[i].bronze_1 = 0
       /\ merged[i].points_1 = 3
       /\ merged[i].daily_double = 3
       /\ merged[i].points_total = 6

\* C16: ranking order.  Of two adjacent entries of the scored output, the
\* first has more points, or as many points and more medals, or as many of
\* both and an earlier place in the roster.
C16_RankingOrder ==
  score_pc = "done" =>
    \A i \in 1..(Len(merged) - 1) :
      \/ merged[i].points_total > merged[i + 1].points_total
      \/ /\ merged[i].points_total = merged[i + 1].points_total
         /\ merged[i].total_medals > merged[i + 1].total_medals
      \/ /\ merged[i].points_total = merged[i + 1].points_total
         /\ merged[i].total_medals = merged[i + 1].total_medals
         /\ merged[i].index < merged[i + 1].index

\* the first entry of the roster has as many points as the two others and
\* fewer medals, and the two others tie on both: it is ranked last, and the
\* two others keep their roster order
C16_Witness ==
  /\ score_pc = "done"
  /\ Len(merged) = 3
  /\ merged[1].points_total = merged[3].points_total
  /\ merged[1].points_total > 0
  /\ merged[1].total_medals = merged[2].total_medals
  /\ merged[2].total_medals > merged[3].total_medals
  /\ merged[1].index = 1
  /\ merged[2].index = 2
  /\ merged[3].index = 0

(***************************************************************************)
(* Properties of the normalisation of the country totals.                  *)
(***************************************************************************)
\* C17: the normalised totals have at most one row per country code and no
\* row with an empty code; every row is one of the cleaned input rows, every
\* code of the input is kept, and the row kept for a code has the highest
\* total of the input rows with that code.
C17_OneRowPerCode ==
  norm_pc = "done" =>
    \A cleaned \in {[i \in 1..Len(norm_in) |-> CleanTotalsRow(norm_in[i])]} :
      /\ \A i, j \in 1..Len(norm_out) :
           i # j => norm_out[i].noc # norm_out[j].noc
      /\ \A i \in 1..Len(norm_out) :
           /\ norm_out[i].noc # <<>>
           /\ \E j \in 1..Len(cleaned) : cleaned[j] = norm_out[i]
      /\ \A j \in 1..Len(cleaned) :
           cleaned[j].noc # <<>> =>
             \E i \in 1..Len(norm_out) :
               /\ norm_out[i].noc = cleaned[j].noc
               /\ norm_out[i].total >= cleaned[j].total

\* two rows of one country, the one with the lower total first, and a row
\* without a code: the row with the total of 5 is the only one kept
C17_Witness ==
  /\ norm_pc = "done"
  /\ Len(norm_in) = 3
  /\ norm_in[1].noc = <<"N","O","R">>
  /\ norm_in[1].total = <<"3">>
  /\ norm_in[2].noc = <<"n","o","r"," ">>
  /\ norm_in[2].total = <<"5">>
  /\ norm_in[3].noc = <<"NaN">>
  /\ Len(norm_out) = 1
  /\ norm_out[1].noc = <<"N","O","R">>
  /\ norm_out[1].total = 5
  /\ norm_out[1].gold = 3

(***************************************************************************)
(* Properties of the script.                                               *)
(***************************************************************************)
\* the live fetch of the totals returns a frame
LiveFetchSucceeds == fetch_medals(wiki_response).raised = ""

\* the step taken from the call of fetch_medals
FetchStep == main_pc = "fetch_medals" /\ main_pc' # "fetch_medals"

\* what a step may do with the cache
C18_Step ==
  /\ cache_reads' # cache_reads =>
       /\ FetchStep
       /\ ~wiki_response.ok
       /\ cache_file.exists
       /\ cache_reads' = cache_reads + 1
  /\ (cache_writes' # cache_writes \/ cache_file' # cache_file) =>
       /\ FetchStep
       /\ wiki_response.ok
       /\ LiveFetchSucceeds
  /\ (FetchStep /\ ~wiki_response.ok /\ cache_file.exists) =>
       /\ cache_reads' = cache_reads + 1
       /\ medals_df' = normalize_medals_df(cache_file.rows)
       /\ main_pc' = "load_friends"
       /\ raised' = ""
  /\ (FetchStep /\ ~wiki_response.ok /\ ~cache_file.exists) =>
       /\ main_pc' = "fatal"
       /\ raised' = "RequestException"
  /\ (FetchStep /\ wiki_response.ok /\ LiveFetchSucceeds) =>
       /\ cache_writes' = cache_writes + 1
       /\ cache_file'.exists
       /\ cache_file'.rows = FrameText(medals_df')
       /\ main_pc' = "load_friends"

\* C18: the fallback of the totals fetch.  The cache is read only in the
\* step that handles a failed request, and then only when the file exists:
\* the run goes on with the cached totals; without a file the request error
\* ends the run.  The cache file is written by every live fetch that
\* succeeds, and no other step writes or changes it.
C18_CacheFallback == [][C18_Step]_vars

\* the request failed, the cache held Norway's row, and the run ended with a
\* page built on it
C18_Witness ==
  /\ main_pc = "done"
  /\ ~wiki_response.ok
  /\ cache_reads = 1
  /\ cache_writes = 0
  /\ Len(medals_df) = 1
  /\ medals_df[1].noc = <<"N","O","R">>
  /\ output_written

\* the lower-cased column labels of a table
ColumnLabels(table) ==
  {StrLower(table.columns[c]) : c \in 1..Len(table.columns)}

\* the table has the three medal headers
IsMedalTable(table) ==
  { <<"g","o","l","d">>, <<"s","i","l","v","e","r">>, <<"b","r","o","n","z","e">> } \subseteq ColumnLabels(table)

\* the page was fetched and has no medal table, or its first medal table has
\* no column with "noc" in its label
ParseError(response) ==
  /\ response.ok
  /\ \/ \A i \in 1..Len(response.tables) : ~IsMedalTable(response.tables[i])
     \/ \E i \in 1..Len(response.tables) :
          /\ IsMedalTable(response.tables[i])
          /\ \A j \in 1..(i - 1) : ~IsMedalTable(response.tables[j])
          /\ \A label \in ColumnLabels(response.tables[i]) :
               ~Contains(label, <<"n","o","c">>)

\* the state of a run that a parse error ended
C19_Aborted ==
  (main_pc # "fetch_medals" /\ ParseError(wiki_response)) =>
    /\ main_pc = "fatal"
    /\ raised = "ValueError"
    /\ cache_reads = 0
    /\ cache_writes = 0
    /\ medals_df = <<>>
    /\ scored_df = <<>>
    /\ ~output_written

\* C19: a parse error of the totals fetch is fatal.  When the page has no
\* table with the gold, silver and bronze headers, or that table has no NOC
\* column, the run ends with the ValueError: the cache is not read, even
\* when the file exists, the cache file stays as it was, and no page is
\* written.
C19_ParseErrorIsFatal ==
  /\ []C19_Aborted
  /\ [][ParseError(wiki_response) => cache_file' = cache_file]_vars

\* the page has a medal table without a NOC column while a cache file
\* exists: the run has ended at the fetch
C19_Witness ==
  /\ main_pc = "fatal"
  /\ raised = "ValueError"
  /\ wiki_response.ok
  /\ \E i \in 1..Len(wiki_response.tables) : IsMedalTable(wiki_response.tables[i])
  /\ cache_file.exists
  /\ cache_reads = 0

\* the stages of the script after the given one
StagesFrom(stage) ==
  CASE stage = "fetch_daily_doubles" ->
         {"fetch_daily_doubles", "build_friend_scores", "fetch_medal_events",
          "write", "done"}
    [] stage = "build_friend_scores" ->
         {"build_friend_scores", "fetch_medal_events", "write", "done"}
    [] stage = "fetch_medal_events" -> {"fetch_medal_events", "write", "done"}
    [] stage = "write" -> {"write", "done"}

\* what the script holds once the event source has failed
C20_Degraded ==
  pc = "failed" =>
    /\ main_winner_rows = <<>>
    /\ main_pc \in StagesFrom("fetch_daily_doubles")
    /\ main_pc \in StagesFrom("build_friend_scores") =>
         /\ DOMAIN double_df = {}
         /\ Len(double_results) = Len(DAILY_DOUBLE_EVENTS)
         /\ \A k \in 1..Len(double_results) :
              /\ double_results[k].event = DAILY_DOUBLE_EVENTS[k].name
              /\ double_results[k].results = <<>>
              /\ double_results[k].scheduled
    /\ main_pc \in StagesFrom("fetch_medal_events") =>
         /\ Len(scored_df) = Len(friends_df)
         /\ \A i \in 1..Len(scored_df) :
              /\ scored_df[i].daily_double = 0
              /\ scored_df[i].points_total =
                   scored_df[i].points_1 + scored_df[i].points_2
    /\ main_pc \in StagesFrom("write") => DOMAIN EVENT_DATA = {}
    /\ main_pc = "done" => output_written

\* the statement of the script that follows the given one
StageAfter(stage) ==
  CASE stage = "fetch_daily_doubles" -> "build_friend_scores"
    [] stage = "build_friend_scores" -> "fetch_medal_events"
    [] stage = "fetch_medal_events" -> "write"
    [] stage = "write" -> "done"

\* after the failure every step of the script is its next statement
C20_Step ==
  (pc = "failed" /\ main_pc' # main_pc) =>
    /\ main_pc # "done"
    /\ main_pc' = StageAfter(main_pc)
    /\ pc' = "failed"

\* C20: the event source is isolated.  Once the fetch or the extraction of
\* the medal-event tables has failed, whatever it had extracted, the script
\* holds no winner rows and goes on, statement after statement, to its end
\* and never to a fatal error: the bonus frame is empty, every descriptor is
\* reported without results and as scheduled, every roster entry has a
\* daily_double of 0 and a points_total of points_1 + points_2, the event
\* map is empty, and the page is written.
C20_EventSourceIsolation ==
  /\ []C20_Degraded
  /\ [][C20_Step]_vars

\* the extraction failed after it had extracted rows, and the run ended with
\* a page on which an entry has points
C20_Witness ==
  /\ pc = "failed"
  /\ main_pc = "done"
  /\ Len(winner_rows) > 0
  /\ main_winner_rows = <<>>
  /\ \E i \in 1..Len(scored_df) : scored_df[i].points_total > 0
  /\ output_written

(***************************************************************************)
(* Properties of the text functions.                                       *)
(***************************************************************************)
\* C21: normalize_text and canonical_text are idempotent: applied to their
\* own result they return it unchanged, for every text; and they return a
\* text for every text.
C21_Idempotent ==
  /\ text_pc \in {"once", "twice"} =>
       /\ text_once.normalize \in Seq(STRING)
       /\ text_once.canonical \in Seq(STRING)
  /\ text_pc = "twice" =>
       /\ text_twice.normalize = text_once.normalize
       /\ text_twice.canonical = text_once.canonical

\* a text with a capital, a run of three whitespace characters and a dash:
\* both functions changed it, differently, and changed nothing the second time
C21_Witness ==
  /\ text_pc = "twice"
  /\ text_marked = <<"G">> \o <<" ", "\t", " ">> \o <<"-">>
  /\ text_once.normalize = <<"g"," ","-">>
  /\ text_once.canonical = <<"g">>
  /\ text_twice = text_once

\* a row of the men's alpine table with the given event name
AlpineRow(event) ==
  [sport |-> <<"A","l","p","i","n","e"," ","s","k","i","i","n","g">>, gender |-> <<"M","e","n","'","s">>, event |-> event]

\* C22: canonical_text ignores footnote markers: the canonical form of a
\* text with a bracketed annotation inserted is the canonical form of the
\* text, and the slalom descriptor accepts an event name with a marker
\* exactly when it accepts the name without it.
C22_MarkerInsensitive ==
  (text_pc = "once" /\ text_marked # text_in) =>
    /\ text_once.canonical = canonical_text(text_in)
    /\ matches_daily_double(AlpineRow(text_marked), DAILY_DOUBLE_EVENTS[4]) =
         matches_daily_double(AlpineRow(text_in), DAILY_DOUBLE_EVENTS[4])

(***************************************************************************)
(* Properties of the table and row loops of the extractor.                 *)
(***************************************************************************)
\* C23: a medal table at an index that TABLE_TO_SPORT does not map is still
\* extracted: where the well-formed table with the Swiss downhill gold
\* stands at such an index, the returned rows hold that gold.
C23_UnmappedTableExtracted ==
  pc = "done" =>
    \A t \in 0..(Len(tables) - 1) :
      (tables[t + 1] = SwissGoldTable /\ t \notin TABLE_TO_SPORT_KEYS) =>
        \E k \in 1..Len(winner_rows) :
          /\ winner_rows[k].event = <<"D","o","w","n","h","i","l","l">>
          /\ winner_rows[k].medal = <<"g","o","l","d">>
          /\ winner_rows[k].noc = <<"S","U","I">>

\* every header of the table is in lower case
LowerCaseHeaders(table) ==
  \A i \in 1..Len(table.columns) : table.columns[i] = StrLower(table.columns[i])

\* the page with the lower-case headers written with their capital
OriginalCaseHeaders(page) ==
  [i \in 1..Len(page) |->
     IF LowerCaseHeaders(page[i])
     THEN [page[i] EXCEPT !.columns = [j \in 1..Len(@) |-> StrTitle(@[j])]]
     ELSE page[i]]

\* C24: the case of the headers does not matter: a page with a medal table
\* whose headers are in lower case yields the rows that the same page yields
\* with the headers "Event", "Gold", "Silver" and "Bronze".
C24_HeaderCaseIrrelevant ==
  (pc = "done" /\ \E i \in 1..Len(tables) :
                     HasMedalHeaders(tables[i]) /\ LowerCaseHeaders(tables[i]))
  => \A expected \in {fetch_medal_winner_rows(OriginalCaseHeaders(tables))} :
       winner_rows = expected

\* C25: the label of a record is "{gender} {sport}: {event}" when the gender
\* is not empty and does not occur in the event name, "{sport}: {event}"
\* otherwise, so that the gender is never written twice.
C25_GenderOnceInLabel ==
  \A k \in 1..Len(winner_rows) :
    winner_rows[k].full_event =
      (IF /\ winner_rows[k].gender # <<>>
          /\ ~IsSubstring(StrLower(winner_rows[k].gender), StrLower(winner_rows[k].event))
       THEN winner_rows[k].gender \o <<" ">> ELSE <<>>)
      \o winner_rows[k].sport \o <<":", " ">> \o winner_rows[k].event

\* the event cell of the row is blank or missing, or what is left of it
\* without " details" and "details" is empty or the header text
EventCellRejected(table, row) ==
  \A event_raw \in {RowGet(table, row, <<"E","v","e","n","t">>)} :
    \/ event_raw \in {<<>>, NanText}
    \/ clean_event_name(event_raw) = <<>>
    \/ StrLower(clean_event_name(event_raw)) = <<"e","v","e","n","t">>

\* the step of the row loop at a row whose event cell is rejected
C26_Step ==
  (AtRow /\ EventCellRejected(CurrentTable, CurrentRow)) =>
    /\ winner_rows' = winner_rows
    /\ seen_rows' = seen_rows
    /\ row_idx' = row_idx + 1
    /\ table_idx' = table_idx
    /\ pc' = "run"

\* C26: a row whose event cell is blank, missing, empty after cleaning or the
\* header text emits no record, and the loop goes on with the next row of
\* the same table.
C26_RejectedRowSkipped == [][C26_Step]_vars

\* after a "nan" row and a " details" row that left nothing, the third row of
\* the table gave the bronze of Germany
C26_Witness ==
  /\ pc = "run"
  /\ Len(tables) = 3
  /\ table_idx = 2
  /\ tables[3] = BlankEventTable
  /\ row_idx = 3
  /\ EventCellRejected(BlankEventTable, BlankEventTable.rows[1])
  /\ EventCellRejected(BlankEventTable, BlankEventTable.rows[2])
  /\ \E k \in 1..Len(winner_rows) :
       /\ winner_rows[k].event = <<"M","e","n","'","s"," ","g","i","a","n","t"," ","s","l","a","l","o","m">>
       /\ winner_rows[k].medal = <<"b","r","o","n","z","e">>
       /\ winner_rows[k].noc = <<"G","E","R">>
  /\ \A k \in 1..Len(winner_rows) : winner_rows[k].noc \notin { <<"I","T","A">>, <<"N","O","R">> }

\* the row loop computed at once returns what the steps of the loop built
ExtractorAgrees == pc = "done" => winner_rows = fetch_medal_winner_rows(tables)

(***************************************************************************)
(* Properties of the normalised totals, the roster and the name tables.    *)
(***************************************************************************)
\* C27: in the normalised totals gold, silver, bronze and total are never
\* negative, whatever the source values were.
C27_CountsNonNegative ==
  norm_pc = "done" =>
    \A i \in 1..Len(norm_out) :
      /\ norm_out[i].gold >= 0
      /\ norm_out[i].silver >= 0
      /\ norm_out[i].bronze >= 0
      /\ norm_out[i].total >= 0

\* the number of entries in the lists of the given countries
RECURSIVE TotalLength(_, _)
TotalLength(by_noc, nocs) ==
  IF nocs = {} THEN 0
  ELSE LET noc == CHOOSE n \in nocs : TRUE
       IN  Len(by_noc[noc]) + TotalLength(by_noc, nocs \ {noc})

\* C28: on the rows the extractor returns, the grouping by country drops
\* nothing: two rows of one country never have the same key (label, medal,
\* athlete), and the lists of fetch_medal_events hold as many entries as
\* there are rows.  The labels of two entries of TABLE_TO_SPORT are the same
\* only for the same sport and gender, and their only colon is the one
\* before the event name.
C28_GroupingKeepsAll ==
  pc = "done" =>
    /\ \A i, j \in 1..Len(winner_rows) :
         (i < j /\ winner_rows[i].noc = winner_rows[j].noc) =>
           GroupKey(EventData(winner_rows[i])) # GroupKey(EventData(winner_rows[j]))
    /\ \A by_noc \in {fetch_medal_events(winner_rows)} :
         TotalLength(by_noc, DOMAIN by_noc) = Len(winner_rows)
    /\ Cardinality({StrLower(FullEvent(TABLE_TO_SPORT_ITEMS[a], <<>>)) :
                       a \in 1..Len(TABLE_TO_SPORT_ITEMS)}) =
         Cardinality({<<StrLower(TABLE_TO_SPORT_ITEMS[a].sport),
                        StrLower(TABLE_TO_SPORT_ITEMS[a].gender)>> :
                       a \in 1..Len(TABLE_TO_SPORT_ITEMS)})
    /\ \A a \in 1..Len(TABLE_TO_SPORT_ITEMS) :
         /\ \A p \in 1..Len(TABLE_TO_SPORT_ITEMS[a].sport) :
              TABLE_TO_SPORT_ITEMS[a].sport[p] # ":"
         /\ \A p \in 1..Len(TABLE_TO_SPORT_ITEMS[a].gender) :
              TABLE_TO_SPORT_ITEMS[a].gender[p] # ":"

\* the extractor returned two golds of one athlete of Korea that differ in
\* the event name only, and the list of Korea holds both
C28_Witness ==
  /\ pc = "done"
  /\ \E i, j \in 1..Len(winner_rows) :
       /\ i < j
       /\ winner_rows[i].noc = <<"K","O","R">>
       /\ winner_rows[j].noc = <<"K","O","R">>
       /\ winner_rows[i].medal = winner_rows[j].medal
       /\ winner_rows[i].athlete = winner_rows[j].athlete
       /\ winner_rows[i].sport = winner_rows[j].sport
       /\ winner_rows[i].event # winner_rows[j].event
  /\ Len(fetch_medal_events(winner_rows)[<<"K","O","R">>]) >= 2

\* C29: the scoring keeps the roster.  From the merge on, the frame has one
\* row per roster entry, the row labels are those of the roster, each row
\* carries the name and the cleaned codes of its entry, and an entry with an
\* empty second code has no medals and no points on the second side and a
\* bonus that is the bonus of its first code.
C29_RosterPreserved ==
  score_pc # "merge" =>
    /\ Len(merged) = Len(score_friends)
    /\ {merged[i].index : i \in 1..Len(merged)} = 0..(Len(score_friends) - 1)
    /\ \A i \in 1..Len(merged) :
       \A f \in {score_friends[merged[i].index + 1]} :
         /\ merged[i].friend = f.friend
         /\ merged[i].noc_1 = clean_noc(f.noc_1)
         /\ merged[i].noc_2 = clean_noc(f.noc_2)
         /\ clean_noc(f.noc_2) = <<>> =>
              /\ merged[i].points_2 = 0
              /\ merged[i].gold_2 = 0
              /\ merged[i].silver_2 = 0
              /\ merged[i].bronze_2 = 0
              /\ merged[i].total_2 = 0
              /\ score_pc \in {"total", "done"} =>
                   merged[i].daily_double =
                     (IF DOMAIN score_double # {}
                      THEN get_dd_points(merged[i].noc_1, score_double) ELSE 0)

\* two roster entries scored against totals with a repeated code and a blank
\* code: the entry of Norway without a second country has points and a bonus
\* on its first side only
C29_Witness ==
  /\ score_pc = "done"
  /\ Len(score_friends) = 2
  /\ Len(merged) = 2
  /\ Len(score_medals) = 4
  /\ Len(normalize_medals_df(score_medals)) = 2
  /\ DOMAIN score_double # {}
  /\ \E i \in 1..Len(merged) :
       /\ merged[i].noc_1 = <<"N","O","R">>
       /\ merged[i].noc_2 = <<>>
       /\ merged[i].points_1 > 0
       /\ merged[i].points_2 = 0
       /\ merged[i].daily_double > 0

\* the codes the extractor assigns to a country name: those of the entries of
\* its COUNTRY_TO_NOC with that name in lower case
ExtractorCodes(country) ==
  {COUNTRY_TO_NOC[i].noc : i \in {j \in CountryIndex : COUNTRY_TO_NOC[j].name = StrLower(country)}}

\* C30: the two name tables agree: once the totals were fetched from the
\* page, every country of its medal table to which the extractor assigns a
\* code has a row with that code in the totals.
C30_NameTablesAgree ==
  (main_pc = "done" /\ LiveFetchSucceeds) =>
    \A table \in {wiki_response.tables[MedalTableIndex(wiki_response.tables)]} :
      \A r \in 1..Len(table.rows) :
        \A noc \in ExtractorCodes(CountryName(table.rows[r][CountryColumn(LowerColumnList(table))])) :
          \E k \in 1..Len(medals_df) : medals_df[k].noc = noc

====
